---- MODULE Spec2Model ----
(***************************************************************************)
(* Model of the time-stepping kernel MMSP::update of alloy625.cpp: the     *)
(* adaptive timestep controller, the double-buffered sweep with its        *)
(* per-node equilibrium solve, the ghost-cell exchanges and the            *)
(* reductions between partitions.                                          *)
(*                                                                         *)
(* Units.  Times are integers counting ticks; one tick is dtc/75302        *)
(* (about 5.0e-8 s), so that dt = LinStab * min(dtp, dtc) is 2500 ticks.   *)
(* Products of a time with a factor are truncated to a whole tick, as the  *)
(* double arithmetic of the code rounds to its own resolution.  Lengths    *)
(* count units of 0.5e-15 m and velocities units of one length unit per    *)
(* tick.  epsilon (1.0e-14) lies below that resolution: it is the          *)
(* smallest positive value, 1, and the velocities of the model are 0 or    *)
(* at least 2.                                                             *)
(*                                                                         *)
(* Field values.  The thirteen fields of a node are real numbers produced  *)
(* by the free energy functions (taylor625.c) and by GSL.  The model       *)
(* keeps, for each group of fields, where its value comes from: the sweep  *)
(* (time of the old state and timestep) that wrote it, whether the         *)
(* stencil it was computed from belonged to one grid state, and for the    *)
(* fictitious compositions whether they are solver output or guesses.      *)
(***************************************************************************)
EXTENDS Integers, Sequences, FiniteSets, TLC

VARIABLES
  pc,                  \* per rank: position in update
  steps,               \* the argument of update
  adaptStep,           \* build option: adaptive time-stepping
  current_time,        \* per rank
  current_dt,          \* per rank
  logcount,            \* per rank (static int)
  totBadTangents,      \* per rank
  oldGrid,             \* per rank: the partition's old buffer
  newGrid,             \* per rank: the partition's new buffer
  myv,                 \* per rank: local maximum velocity, before the all-reduce
  interfacialVelocity, \* per rank: value returned by maxVelocity
  cfile,               \* c.log as written by rank 0
  tfile,               \* t.log as written by rank 0
  gsl,                 \* per rank, per node: what GSL does on this node
  task,                \* per rank, per node: position of the node's loop body
  reg,                 \* per rank, per node: register of the increment
  updCrit1,            \* per rank: holder of the critical section
  vary,                \* per rank: sweeps left whose velocity the environment varies
  initGridN,           \* one node with numeric fields, for the node-level functions
  interp,              \* arguments and values of the interpolation functions
  run,                 \* one run of generate or update: its files and its end
  lattice,             \* a one-dimensional grid with numeric fields, in update
  summary,             \* summarize: the partitions' sums and the reduced values
  comp,                \* generate: the grid it builds and its Composition accumulator
  parallelTangentSolver, \* one call of rootsolver::solve and the caller's test
  calls,               \* the calls of update that have returned: steps, and
                       \* logcount and the rows of c.log at the return
  energy               \* gibbs on one node: the node and what gibbs computes from it

\* the state of update
stepper == <<pc, steps, adaptStep, current_time, current_dt, logcount,
             totBadTangents, oldGrid, newGrid, myv, interfacialVelocity, cfile,
             tfile, gsl, task, reg, updCrit1, vary>>

\* the numeric state of the node-level and grid-level functions
numerics == <<initGridN, interp, run, lattice, summary, comp,
              parallelTangentSolver, calls, energy>>

vars == <<stepper, numerics>>

\* update runs on the abstract grid: no numeric state
NumericsIdle ==
  /\ initGridN = <<>> /\ interp = <<>> /\ run = <<>>
  /\ lattice = <<>> /\ summary = <<>> /\ comp = <<>>
  /\ parallelTangentSolver = <<>> /\ calls = <<>> /\ energy = <<>>

-----------------------------------------------------------------------------
(* Bounds of the model *)

NumNodes == 2        \* nodes of one partition
MaxSteps == 25       \* largest steps argument
MaxVaried == 2       \* sweeps whose velocity the environment varies
MaxRanks == 2        \* partitions of the distributed run
MaxStepsShort == 2   \* largest steps argument of the task and distributed runs
MaxVariedShort == 1  \* the same, in the task and distributed runs

-----------------------------------------------------------------------------
(* Program constants *)

dtp == 694266640     \* transformation-limited timestep, in ticks (dim = 1)
dtc == 75302         \* diffusion-limited timestep, in ticks (dim = 1)
LinStabNum == 25000  \* LinStab = 1.0 / 30.12044 = 25000 / 753011
LinStabDen == 753011
meshres == 10000000  \* 5.0e-9 m
epsilon == 1
root_tol == 4        \* 1.0e-4, in units of 2.5e-5
scaleup == 11        \* 1.1, in tenths
scaledn == 8         \* 0.8, in tenths
LogStepMax == 100000

Min(a, b) == IF a < b THEN a ELSE b
Max(a, b) == IF a > b THEN a ELSE b

\* x * (k / 10), truncated
Tenths(x, k) == (x * k) \div 10

dt == (Min(dtp, dtc) * LinStabNum) \div LinStabDen
run_time(s) == dt * s
timelimit == Min(dtp, dtc) \div 10
advectionlimit == meshres \div 8
logstep(s) == Min(LogStepMax, s)

Procs == DOMAIN pc
LocalNodes == 0 .. (NumNodes - 1)
LastNode == NumNodes - 1

-----------------------------------------------------------------------------
(* Nodes and buffers *)

NoStamp == [t |-> -1, dt |-> 0]

\* the node with global index g as read from the input file
InitNode(g) ==
  [id |-> g, at |-> NoStamp, ok |-> TRUE,
   fict |-> [how |-> "init", at |-> NoStamp], vel |-> NoStamp]

InitBuffer(p) ==
  [cells |-> [i \in LocalNodes |-> InitNode(p * NumNodes + i)],
   lo |-> InitNode(-1), hi |-> InitNode(-1),
   b0 |-> "periodic", b1 |-> "periodic"]

SameState(a, b) == a.at = b.at

\* stencil neighbours of local node i of buffer G on rank p of n ranks
Left(G, p, i) ==
  IF i > 0 THEN G.cells[i - 1]
  ELSE IF p = 0 /\ G.b0 = "Neumann" THEN G.cells[0]
  ELSE G.lo

Right(G, p, n, i) ==
  IF i < LastNode THEN G.cells[i + 1]
  ELSE IF p = n - 1 /\ G.b1 = "Neumann" THEN G.cells[LastNode]
  ELSE G.hi

-----------------------------------------------------------------------------
(* GSL: what gsl_multiroot_fdfsolver_iterate leaves behind on a node.  f is  *)
(* the residual vector of the solver when the loop of solve ends, iterErr    *)
(* says that the loop ended because iterate returned an error code.          *)

Unknowns == 0 .. 7

ResidualOf(k) == [j \in Unknowns |-> IF j < 2 THEN k ELSE 0]

Converged == [iterErr |-> FALSE, f |-> ResidualOf(1)]

\* convergence; the iteration budget used up with a small or a large residual;
\* an error of iterate with a small residual
GslOutcomes ==
  {Converged} \cup {[iterErr |-> FALSE, f |-> ResidualOf(k)] : k \in 2 .. 3}
              \cup {[iterErr |-> TRUE, f |-> ResidualOf(1)]}

RECURSIVE SumOver(_, _)
SumOver(f, S) ==
  IF S = {} THEN 0
  ELSE LET j == CHOOSE x \in S : TRUE IN f[j] + SumOver(f, S \ {j})

Abs(x) == IF x < 0 THEN -x ELSE x

\* a convergence test on the largest residual alone
test_residualMax(f, epsabs) ==
  IF \A j \in Unknowns : Abs(f[j]) < epsabs
  THEN "GSL_SUCCESS" ELSE "GSL_CONTINUE"

\* gsl_multiroot_test_residual: the sum of the absolute residuals against epsabs
test_residual(f, epsabs) ==
  IF SumOver([j \in Unknowns |-> Abs(f[j])], Unknowns) < epsabs
  THEN "GSL_SUCCESS" ELSE "GSL_CONTINUE"

\* square of gsl_blas_dnrm2
dnrm2sq(f) == SumOver([j \in Unknowns |-> f[j] * f[j]], Unknowns)

tolerance == root_tol

\* status when the do-while loop of solve ends
SolveStatus(g) ==
  IF g.iterErr THEN "GSL_ENOPROG" ELSE test_residual(g.f, tolerance)

\* rootsolver::solve: the node afterwards and the square of the returned residual
solve(GRIDN, g) ==
  [node |-> IF SolveStatus(g) = "GSL_SUCCESS"
            THEN [GRIDN EXCEPT !.fict = [how |-> "solved", at |-> GRIDN.at]]
            ELSE GRIDN,
   residual2 |-> dnrm2sq(g.f)]

\* guessGamma, guessDelta, guessMu, guessLaves: functions of fields 0 and 1
guessAll(GRIDN) == [GRIDN EXCEPT !.fict = [how |-> "guess", at |-> GRIDN.at]]

\* res > root_tol
BadTangent(residual2) == residual2 > root_tol * root_tol

-----------------------------------------------------------------------------
(* The point-wise kernel of update *)

KernelInPlace(oldG, newG, p, n, i, tv, dtv) ==
  LET c == oldG.cells[i]
      l == Left(newG, p, i)
      r == Right(newG, p, n, i)
  IN [newG.cells[i] EXCEPT
        !.at = [t |-> tv, dt |-> dtv],
        !.ok = c.ok /\ l.ok /\ r.ok /\ SameState(l, c) /\ SameState(r, c),
        !.fict = c.fict]

\* lines 742-819: newGrid(n) afterwards; fields 0-4 from the old node and its
\* stencil, fields 5-12 copied from the old node as initial guesses
Kernel(oldG, newG, p, n, i, tv, dtv) ==
  LET c == oldG.cells[i]
      l == Left(oldG, p, i)
      r == Right(oldG, p, n, i)
  IN [newG.cells[i] EXCEPT
        !.at = [t |-> tv, dt |-> dtv],
        !.ok = c.ok /\ l.ok /\ r.ok /\ SameState(l, c) /\ SameState(r, c),
        !.fict = c.fict]

\* the kernel followed by the solve
Solved(oldG, newG, p, n, i, tv, dtv, g) ==
  solve(Kernel(oldG, newG, p, n, i, tv, dtv), g)

\* the whole loop body for one node
UpdateNode(oldG, newG, p, n, i, tv, dtv, g) ==
  LET s == Solved(oldG, newG, p, n, i, tv, dtv, g)
  IN IF BadTangent(s.residual2)
     THEN [node |-> guessAll(s.node), bad |-> 1]
     ELSE [node |-> s.node, bad |-> 0]

-----------------------------------------------------------------------------
(* The timestep controller *)

\* a loop head that leaves the timestep as it is
ClipDtNever(cdt, ctime, s, adapt) == cdt

\* line 730
ClipDt(cdt, ctime, s, adapt) ==
  IF adapt THEN Min(cdt, run_time(s) - ctime) ELSE cdt

\* a fallback that leaves no room between the timestep and its ideal
IdealDtTight(v, cdt) ==
  IF v > epsilon THEN advectionlimit \div v ELSE cdt

\* line 848
IdealDt(v, cdt) ==
  IF v > epsilon THEN advectionlimit \div v ELSE 2 * cdt

StepAcceptedAtLimit(cdt, ideal) == cdt <= ideal

\* line 850
StepAccepted(cdt, ideal) == cdt < ideal

GrowDtUncapped(cdt, v, adapt) ==
  IF adapt /\ v > epsilon THEN Tenths(cdt, scaleup) ELSE cdt

\* lines 883-885
GrowDt(cdt, v, adapt) ==
  IF adapt /\ v > epsilon THEN Min(Tenths(cdt, scaleup), timelimit) ELSE cdt

ShrinkDtUnscaled(ideal) == ideal

ShrinkDtZero(ideal) == 0 * ideal

\* line 893
ShrinkDt(ideal) == Tenths(ideal, scaledn)

\* a row on the first accepted step after a row
LogDueFirst(lc, s) == lc = 1

\* line 858
LogDue(lc, s) == lc = logstep(s)

-----------------------------------------------------------------------------
(* Collectives *)

GhostSwapNone(G) == G

\* ghostswap: every partition receives the edge nodes of its neighbours
GhostSwap(G) ==
  LET n == Cardinality(DOMAIN G)
  IN [p \in DOMAIN G |->
        [G[p] EXCEPT !.lo = G[(p + n - 1) % n].cells[LastNode],
                     !.hi = G[(p + 1) % n].cells[0]]]

RECURSIVE MaxOver(_, _, _)
MaxOver(f, S, start) ==
  IF S = {} THEN start
  ELSE LET j == CHOOSE x \in S : TRUE IN Max(f[j], MaxOver(f, S \ {j}, start))

\* maxVelocity, lines 1463-1497: the local maximum, starting from -epsilon
LocalMax(v) == MaxOver(v, DOMAIN v, -epsilon)

AllreduceLocal(m, p) == m[p]

\* maxVelocity, lines 1499-1502: Allreduce with MPI_MAX, as seen by rank p
AllreduceMax(m, p) == MaxOver(m, DOMAIN m, m[p])

\* a reduction that leaves the root with its own contribution
ReduceSumRoot(b) == b[0]

\* Reduce with MPI_SUM to rank 0
ReduceSum(b) == SumOver(b, DOMAIN b)

SwapOldKept(o, n) == o

\* swap(oldGrid, newGrid) exchanges the two buffers
SwapOld(o, n) == n
SwapNew(o, n) == o

\* summarize records the local velocity of the step in the last field
Summarized(G) ==
  [G EXCEPT !.cells = [i \in LocalNodes |-> [G.cells[i] EXCEPT !.vel = G.cells[i].at]]]

\* lines 682-694: boundary tags of a partition that touches the domain edges
Tagged(G, p, n) ==
  IF p = 0 THEN [G EXCEPT !.b0 = "Neumann"]
  ELSE IF p = n - 1 THEN [G EXCEPT !.b1 = "Neumann"]
  ELSE G

-----------------------------------------------------------------------------
(* Velocities the environment may produce: none, one that lets the timestep  *)
(* grow up to timelimit, one that rejects the initial timestep and one that  *)
(* rejects the timestep that follows such a rejection                        *)

Velocities == {0, 100, 500, 1000}

\* a budget below zero is never used up
Unlimited == 0 - 1

VelocityChoices(budget) == IF budget # 0 THEN Velocities ELSE {100}

\* What GSL does in the next sweep: as in the last one, or converging everywhere
SolverChoices(budget, g) ==
  IF budget > 0 THEN {g, [i \in LocalNodes |-> Converged]} ELSE {g}

-----------------------------------------------------------------------------
(* Initial states: update is about to be called on the grid read from disk *)

InitFor(n, S, budget, G) ==
  /\ pc = [p \in 0 .. (n - 1) |-> "entry"]
  /\ steps \in S
  /\ adaptStep \in BOOLEAN
  /\ current_time = [p \in 0 .. (n - 1) |-> 0]
  /\ current_dt = [p \in 0 .. (n - 1) |-> 0]
  /\ logcount = [p \in 0 .. (n - 1) |-> 1]
  /\ totBadTangents = [p \in 0 .. (n - 1) |-> 0]
  /\ oldGrid = [p \in 0 .. (n - 1) |-> InitBuffer(p)]
  /\ newGrid = [p \in 0 .. (n - 1) |-> InitBuffer(p)]
  /\ myv = [p \in 0 .. (n - 1) |-> 0]
  /\ interfacialVelocity = [p \in 0 .. (n - 1) |-> 0]
  /\ cfile = [open |-> FALSE, rows |-> <<>>]
  /\ tfile = [open |-> FALSE, rows |-> <<>>]
  /\ gsl \in G
  /\ task = [p \in 0 .. (n - 1) |-> [i \in LocalNodes |-> "todo"]]
  /\ reg = [p \in 0 .. (n - 1) |-> [i \in LocalNodes |-> 0]]
  /\ updCrit1 = [p \in 0 .. (n - 1) |-> -1]
  /\ vary = [p \in 0 .. (n - 1) |-> budget]
  /\ NumericsIdle

-----------------------------------------------------------------------------
(* update, lines 668-716: ghostswap(oldGrid), the copy into newGrid, the    *)
(* boundary tags, the log files and the controller's initial values         *)

Enter ==
  /\ \A p \in Procs : pc[p] = "entry"
  /\ LET n == Cardinality(Procs)
         swapped == GhostSwap(oldGrid)
     IN /\ oldGrid' = [p \in Procs |-> Tagged(swapped[p], p, n)]
        /\ newGrid' = [p \in Procs |-> Tagged(swapped[p], p, n)]
  /\ cfile' = [cfile EXCEPT !.open = TRUE]
  /\ tfile' = [tfile EXCEPT !.open = adaptStep]
  /\ current_time' = [p \in Procs |-> 0]
  /\ current_dt' = [p \in Procs |-> dt]
  /\ pc' = [p \in Procs |-> "head"]
  /\ UNCHANGED numerics
  /\ UNCHANGED <<steps, adaptStep, logcount, totBadTangents, myv,
                 interfacialVelocity, gsl, task, reg, updCrit1, vary>>

\* lines 722-732: the loop test, the clipping of the timestep, the counter
LoopHead(p) ==
  /\ pc[p] = "head"
  /\ current_time[p] < run_time(steps) /\ current_dt[p] > 0
  /\ current_dt' = [current_dt EXCEPT
                      ![p] = ClipDt(@, current_time[p], steps, adaptStep)]
  /\ totBadTangents' = [totBadTangents EXCEPT ![p] = 0]
  /\ \E g \in SolverChoices(vary[p], gsl[p]) : gsl' = [gsl EXCEPT ![p] = g]
  /\ pc' = [pc EXCEPT ![p] = "sweep"]
  /\ UNCHANGED numerics
  /\ UNCHANGED <<steps, adaptStep, current_time, logcount, oldGrid, newGrid, myv,
                 interfacialVelocity, cfile, tfile, task, reg, updCrit1, vary>>

\* lines 722 and 906-910: the loop ends, rank 0 closes the logs
LoopExit(p) ==
  /\ pc[p] = "head"
  /\ ~(current_time[p] < run_time(steps) /\ current_dt[p] > 0)
  /\ cfile' = IF p = 0 THEN [cfile EXCEPT !.open = FALSE] ELSE cfile
  /\ tfile' = IF p = 0 THEN [tfile EXCEPT !.open = FALSE] ELSE tfile
  /\ pc' = [pc EXCEPT ![p] = "returned"]
  /\ UNCHANGED numerics
  /\ UNCHANGED <<steps, adaptStep, current_time, current_dt, logcount,
                 totBadTangents, oldGrid, newGrid, myv, interfacialVelocity, gsl,
                 task, reg, updCrit1, vary>>

\* lines 737-842 without OpenMP: the loop over the nodes of the partition
SweepCells(oldG, newG, p, n, tv, dtv, g) ==
  [i \in LocalNodes |-> UpdateNode(oldG, newG, p, n, i, tv, dtv, g[i])]

Sweep(p) ==
  /\ pc[p] = "sweep"
  /\ LET r == SweepCells(oldGrid[p], newGrid[p], p, Cardinality(Procs),
                         current_time[p], current_dt[p], gsl[p])
     IN /\ newGrid' = [newGrid EXCEPT
                         ![p].cells = [i \in LocalNodes |-> r[i].node]]
        /\ totBadTangents' = [totBadTangents EXCEPT
                                ![p] = SumOver([i \in LocalNodes |-> r[i].bad],
                                               LocalNodes)]
  /\ pc' = [pc EXCEPT ![p] = "ghost"]
  /\ UNCHANGED numerics
  /\ UNCHANGED <<steps, adaptStep, current_time, current_dt, logcount, oldGrid,
                 myv, interfacialVelocity, cfile, tfile, gsl, task, reg, updCrit1,
                 vary>>

\* line 844: ghostswap(newGrid)
GhostSwapNew ==
  /\ \A p \in Procs : pc[p] = "ghost"
  /\ newGrid' = GhostSwap(newGrid)
  /\ pc' = [p \in Procs |-> "velocity"]
  /\ UNCHANGED numerics
  /\ UNCHANGED <<steps, adaptStep, current_time, current_dt, logcount,
                 totBadTangents, oldGrid, myv, interfacialVelocity, cfile, tfile,
                 gsl, task, reg, updCrit1, vary>>

\* maxVelocity, lines 1463-1497: the loop over the nodes of the partition
LocalVelocity(p) ==
  /\ pc[p] = "velocity"
  /\ \E v \in [LocalNodes -> VelocityChoices(vary[p])] :
       myv' = [myv EXCEPT ![p] = LocalMax(v)]
  /\ vary' = [vary EXCEPT ![p] = IF @ > 0 THEN @ - 1 ELSE @]
  /\ pc' = [pc EXCEPT ![p] = "allreduce"]
  /\ UNCHANGED numerics
  /\ UNCHANGED <<steps, adaptStep, current_time, current_dt, logcount,
                 totBadTangents, oldGrid, newGrid, interfacialVelocity, cfile,
                 tfile, gsl, task, reg, updCrit1>>

\* maxVelocity, lines 1499-1504, and line 847
Allreduce ==
  /\ \A p \in Procs : pc[p] = "allreduce"
  /\ interfacialVelocity' = [p \in Procs |-> AllreduceMax(myv, p)]
  /\ pc' = [p \in Procs |-> "decide"]
  /\ UNCHANGED numerics
  /\ UNCHANGED <<steps, adaptStep, current_time, current_dt, logcount,
                 totBadTangents, oldGrid, newGrid, myv, cfile, tfile, gsl, task,
                 reg, updCrit1, vary>>

-----------------------------------------------------------------------------
(* Lines 846-903: the decision *)

Ideal(p) == IdealDt(interfacialVelocity[p], current_dt[p])

CLogRow(p, bad) ==
  [dt |-> current_dt[p], time |-> current_time[p] + current_dt[p],
   velocity |-> interfacialVelocity[p], bad |-> bad]

TLogRow(p, kind) ==
  [kind |-> kind, velocity |-> interfacialVelocity[p], dt |-> current_dt[p]]

\* lines 850-886 when no row is due: every rank on its own
Accept(p) ==
  /\ pc[p] = "decide"
  /\ StepAccepted(current_dt[p], Ideal(p))
  /\ ~LogDue(logcount[p], steps)
  /\ current_time' = [current_time EXCEPT ![p] = @ + current_dt[p]]
  /\ logcount' = [logcount EXCEPT ![p] = @ + 1]
  /\ oldGrid' = [oldGrid EXCEPT ![p] = SwapOld(oldGrid[p], newGrid[p])]
  /\ newGrid' = [newGrid EXCEPT ![p] = SwapNew(oldGrid[p], newGrid[p])]
  /\ current_dt' = [current_dt EXCEPT
                      ![p] = GrowDt(@, interfacialVelocity[p], adaptStep)]
  /\ myv' = [myv EXCEPT ![p] = 0]
  /\ interfacialVelocity' = [interfacialVelocity EXCEPT ![p] = 0]
  /\ pc' = [pc EXCEPT ![p] = "head"]
  /\ UNCHANGED numerics
  /\ UNCHANGED <<steps, adaptStep, totBadTangents, cfile, tfile, gsl, task, reg,
                 updCrit1, vary>>

\* lines 850-886 when a row is due: the ranks meet in Reduce and in summarize
AcceptLog ==
  /\ \A p \in Procs : /\ pc[p] = "decide"
                       /\ StepAccepted(current_dt[p], Ideal(p))
                       /\ LogDue(logcount[p], steps)
  /\ current_time' = [p \in Procs |-> current_time[p] + current_dt[p]]
  /\ totBadTangents' = [totBadTangents EXCEPT ![0] = ReduceSum(totBadTangents)]
  /\ cfile' = [cfile EXCEPT
                 !.rows = Append(@, CLogRow(0, ReduceSum(totBadTangents)))]
  /\ tfile' = IF adaptStep
              THEN [tfile EXCEPT !.rows = Append(@, TLogRow(0, "accepted"))]
              ELSE tfile
  /\ logcount' = [p \in Procs |-> 1]
  /\ oldGrid' = [p \in Procs |-> SwapOld(oldGrid[p], Summarized(newGrid[p]))]
  /\ newGrid' = [p \in Procs |-> SwapNew(oldGrid[p], Summarized(newGrid[p]))]
  /\ current_dt' = [p \in Procs |->
                      GrowDt(current_dt[p], interfacialVelocity[p], adaptStep)]
  /\ myv' = [p \in Procs |-> 0]
  /\ interfacialVelocity' = [p \in Procs |-> 0]
  /\ pc' = [p \in Procs |-> "head"]
  /\ UNCHANGED numerics
  /\ UNCHANGED <<steps, adaptStep, gsl, task, reg, updCrit1, vary>>

\* lines 887-893: the step is rejected and retried
Reject(p) ==
  /\ pc[p] = "decide"
  /\ ~StepAccepted(current_dt[p], Ideal(p))
  /\ adaptStep
  /\ tfile' = IF p = 0
              THEN [tfile EXCEPT !.rows = Append(@, TLogRow(0, "rejected"))]
              ELSE tfile
  /\ current_dt' = [current_dt EXCEPT ![p] = ShrinkDt(Ideal(p))]
  /\ myv' = [myv EXCEPT ![p] = 0]
  /\ interfacialVelocity' = [interfacialVelocity EXCEPT ![p] = 0]
  /\ pc' = [pc EXCEPT ![p] = "head"]
  /\ UNCHANGED numerics
  /\ UNCHANGED <<steps, adaptStep, current_time, logcount, totBadTangents,
                 oldGrid, newGrid, cfile, gsl, task, reg, updCrit1, vary>>

\* lines 894-902: without adaptive stepping the run is aborted
Abort(p) ==
  /\ pc[p] = "decide"
  /\ ~StepAccepted(current_dt[p], Ideal(p))
  /\ ~adaptStep
  /\ cfile' = IF p = 0 THEN [cfile EXCEPT !.open = FALSE] ELSE cfile
  /\ pc' = [q \in Procs |-> "aborted"]
  /\ UNCHANGED numerics
  /\ UNCHANGED <<steps, adaptStep, current_time, current_dt, logcount,
                 totBadTangents, oldGrid, newGrid, myv, interfacialVelocity, tfile,
                 gsl, task, reg, updCrit1, vary>>

-----------------------------------------------------------------------------
(* Lines 734-842 with OpenMP: the loop bodies of the nodes run as tasks of   *)
(* the worker threads, in any order and interleaved at every shared access   *)

\* lines 742-824: kernel, solve and the test of the residual
NodeKernel(p, i) ==
  /\ pc[p] = "sweep"
  /\ task[p][i] = "todo"
  /\ LET s == Solved(oldGrid[p], newGrid[p], p, Cardinality(Procs), i,
                     current_time[p], current_dt[p], gsl[p][i])
     IN /\ newGrid' = [newGrid EXCEPT ![p].cells[i] = s.node]
        /\ task' = [task EXCEPT
                      ![p][i] = IF BadTangent(s.residual2) THEN "enter" ELSE "done"]
  /\ UNCHANGED numerics
  /\ UNCHANGED <<pc, steps, adaptStep, current_time, current_dt, logcount,
                 totBadTangents, oldGrid, myv, interfacialVelocity, cfile, tfile,
                 gsl, reg, updCrit1, vary>>

CanEnterAlways(holder) == TRUE

\* omp critical (updCrit1): one thread at a time
CanEnter(holder) == holder = -1

\* lines 827-830: the section is entered and the counter is read
EnterCritical(p, i) ==
  /\ pc[p] = "sweep"
  /\ task[p][i] = "enter"
  /\ CanEnter(updCrit1[p])
  /\ updCrit1' = [updCrit1 EXCEPT ![p] = i]
  /\ reg' = [reg EXCEPT ![p][i] = totBadTangents[p]]
  /\ task' = [task EXCEPT ![p][i] = "incr"]
  /\ UNCHANGED numerics
  /\ UNCHANGED <<pc, steps, adaptStep, current_time, current_dt, logcount,
                 totBadTangents, oldGrid, newGrid, myv, interfacialVelocity, cfile,
                 tfile, gsl, vary>>

\* lines 830-831: the incremented counter is written and the section is left
LeaveCritical(p, i) ==
  /\ pc[p] = "sweep"
  /\ task[p][i] = "incr"
  /\ totBadTangents' = [totBadTangents EXCEPT ![p] = reg[p][i] + 1]
  /\ updCrit1' = [updCrit1 EXCEPT ![p] = -1]
  /\ reg' = [reg EXCEPT ![p][i] = 0]
  /\ task' = [task EXCEPT ![p][i] = "guess"]
  /\ UNCHANGED numerics
  /\ UNCHANGED <<pc, steps, adaptStep, current_time, current_dt, logcount,
                 oldGrid, newGrid, myv, interfacialVelocity, cfile, tfile, gsl,
                 vary>>

\* lines 833-836: the guesses are substituted
Guess(p, i) ==
  /\ pc[p] = "sweep"
  /\ task[p][i] = "guess"
  /\ newGrid' = [newGrid EXCEPT ![p].cells[i] = guessAll(@)]
  /\ task' = [task EXCEPT ![p][i] = "done"]
  /\ UNCHANGED numerics
  /\ UNCHANGED <<pc, steps, adaptStep, current_time, current_dt, logcount,
                 totBadTangents, oldGrid, myv, interfacialVelocity, cfile, tfile,
                 gsl, reg, updCrit1, vary>>

\* line 842: the implicit barrier at the end of the parallel loop
SweepEnd(p) ==
  /\ pc[p] = "sweep"
  /\ \A i \in LocalNodes : task[p][i] = "done"
  /\ task' = [task EXCEPT ![p] = [i \in LocalNodes |-> "todo"]]
  /\ pc' = [pc EXCEPT ![p] = "ghost"]
  /\ UNCHANGED numerics
  /\ UNCHANGED <<steps, adaptStep, current_time, current_dt, logcount,
                 totBadTangents, oldGrid, newGrid, myv, interfacialVelocity, cfile,
                 tfile, gsl, reg, updCrit1, vary>>

-----------------------------------------------------------------------------
(* The serial build on one process *)

GslMenu(n, O) == [0 .. (n - 1) -> [LocalNodes -> O]]

Init == InitFor(1, {1, 3, MaxSteps}, MaxVaried, GslMenu(1, GslOutcomes))

Control ==
  \/ Enter
  \/ \E p \in Procs : LoopHead(p)
  \/ \E p \in Procs : LoopExit(p)
  \/ GhostSwapNew
  \/ \E p \in Procs : LocalVelocity(p)
  \/ Allreduce
  \/ \E p \in Procs : Accept(p)
  \/ AcceptLog
  \/ \E p \in Procs : Reject(p)
  \/ \E p \in Procs : Abort(p)

Next ==
  \/ Control
  \/ \E p \in Procs : Sweep(p)

Spec == Init /\ [][Next]_vars

-----------------------------------------------------------------------------
(* The OpenMP build on one process *)

FewOutcomes == {g \in GslOutcomes : ~g.iterErr}

InitOMP ==
  InitFor(1, 1 .. MaxStepsShort, MaxVariedShort, GslMenu(1, FewOutcomes))

NextOMP ==
  \/ Control
  \/ \E p \in Procs, i \in LocalNodes : NodeKernel(p, i)
  \/ \E p \in Procs, i \in LocalNodes : EnterCritical(p, i)
  \/ \E p \in Procs, i \in LocalNodes : LeaveCritical(p, i)
  \/ \E p \in Procs, i \in LocalNodes : Guess(p, i)
  \/ \E p \in Procs : SweepEnd(p)

SpecOMP == InitOMP /\ [][NextOMP]_vars

-----------------------------------------------------------------------------
(* The MPI build: MaxRanks partitions, each sweeping its own nodes *)

\* the solver may fail on the first node of a partition
EdgeOutcomes(n) ==
  {g \in GslMenu(n, {Converged, [iterErr |-> FALSE, f |-> ResidualOf(3)]}) :
     \A p \in 0 .. (n - 1) : \A i \in LocalNodes : i > 0 => g[p][i] = Converged}

InitMPI ==
  InitFor(MaxRanks, 1 .. MaxStepsShort, MaxVariedShort, EdgeOutcomes(MaxRanks))

SpecMPI == InitMPI /\ [][Next]_vars

-----------------------------------------------------------------------------
(* Properties of the timestep controller *)

InLoop(p) ==
  pc[p] \in {"head", "sweep", "ghost", "velocity", "allreduce", "decide"}

\* rank p leaves the decision of a sweep whose timestep was not below ideal_dt
RejectedStep(p) ==
  /\ pc[p] = "decide" /\ pc'[p] # "decide"
  /\ adaptStep
  /\ current_dt[p] >= Ideal(p)

\* rank p leaves the decision of a sweep whose timestep was below ideal_dt
AcceptedStep(p) ==
  /\ pc[p] = "decide" /\ pc'[p] # "decide"
  /\ current_dt[p] < Ideal(p)

LastRow(f) == f.rows[Len(f.rows)]

AfterRejection ==
  /\ pc[0] = "head"
  /\ Len(tfile.rows) > 0
  /\ LastRow(tfile).kind = "rejected"

\* C1: under adaptive stepping a rejected step advances no time, swaps no
\* buffers, changes no node of oldGrid and leaves logcount alone, and the loop
\* goes on to sweep again from the same oldGrid.
C1_RejectedStepKeepsState ==
  [][\A p \in Procs :
       RejectedStep(p) =>
         /\ current_time'[p] = current_time[p]
         /\ oldGrid'[p] = oldGrid[p]
         /\ newGrid'[p] = newGrid[p]
         /\ logcount'[p] = logcount[p]
         /\ pc'[p] = "head"
         /\ current_time'[p] < run_time(steps) /\ current_dt'[p] > 0]_vars

\* a step was rejected after an earlier one had been accepted
C1_Witness ==
  /\ AfterRejection
  /\ current_time[0] > 0
  /\ \A i \in LocalNodes : oldGrid[0].cells[i].at # newGrid[0].cells[i].at

\* C2: after every rejected step the timestep is 0.8 * advectionlimit /
\* interfacialVelocity, which is below the rejected timestep and at most 0.8
\* times it.
C2_RejectedStepShrinks ==
  [][\A p \in Procs :
       RejectedStep(p) =>
         /\ interfacialVelocity[p] > epsilon
         /\ current_dt'[p] =
              ((advectionlimit \div interfacialVelocity[p]) * 8) \div 10
         /\ current_dt'[p] < current_dt[p]
         /\ 10 * current_dt'[p] <= 8 * current_dt[p]]_vars

\* two rejections in a row, each with its own velocity
C2_Witness ==
  /\ AfterRejection
  /\ Len(tfile.rows) > 1
  /\ tfile.rows[Len(tfile.rows) - 1].kind = "rejected"
  /\ 10 * current_dt[0] <= 8 * LastRow(tfile).dt
  /\ 10 * LastRow(tfile).dt <= 8 * tfile.rows[Len(tfile.rows) - 1].dt

\* C3: an accepted step advances current_time by the timestep of the sweep,
\* leaves the newly computed state in oldGrid and the previous one in newGrid,
\* and changes current_dt only under adaptive stepping with a velocity above
\* epsilon, to min(1.1 * current_dt, timelimit).
C3_AcceptedStepAdvances ==
  [][\A p \in Procs :
       AcceptedStep(p) =>
         /\ current_time'[p] = current_time[p] + current_dt[p]
         /\ \A i \in LocalNodes :
              /\ oldGrid'[p].cells[i].at =
                   [t |-> current_time[p], dt |-> current_dt[p]]
              /\ oldGrid'[p].cells[i].fict = newGrid[p].cells[i].fict
         /\ newGrid'[p] = oldGrid[p]
         /\ current_dt'[p] =
              IF adaptStep /\ interfacialVelocity[p] > epsilon
              THEN Min((current_dt[p] * 11) \div 10, Min(dtp, dtc) \div 10)
              ELSE current_dt[p]]_vars

\* a step was accepted and the timestep has grown
C3_Witness ==
  /\ pc[0] = "head"
  /\ current_time[0] = dt
  /\ current_dt[0] = (dt * 11) \div 10
  /\ \A i \in LocalNodes : oldGrid[0].cells[i].at = [t |-> 0, dt |-> dt]

\* C4: inside the stepping loop the timestep is positive and at most
\* timelimit = min(dtp, dtc) / 10.
C4_TimestepBounded ==
  \A p \in Procs :
    InLoop(p) =>
      /\ 0 < current_dt[p]
      /\ 10 * current_dt[p] <= Min(dtp, dtc)

\* the timestep has grown up to timelimit and a sweep runs with it
C4_Witness ==
  /\ pc[0] = "sweep"
  /\ current_dt[0] = timelimit

\* the end of the run has clipped the timestep
C4_WitnessClipped ==
  /\ pc[0] = "sweep"
  /\ adaptStep
  /\ current_dt[0] = run_time(steps) - current_time[0]
  /\ current_dt[0] < dt

-----------------------------------------------------------------------------
(* Fixed-step mode *)

\* C5: without adaptive stepping the timestep stays dt, no step is retried,
\* and the first sweep with current_dt >= ideal_dt ends the run after rank 0
\* has closed c.log, with current_time and both buffers as they were.
C5_FixedStepAbort ==
  [][~adaptStep =>
       \A p \in Procs :
         /\ InLoop(p) => current_dt[p] = dt
         /\ (pc[p] = "decide" /\ pc'[p] = "head") => current_dt[p] < Ideal(p)
         /\ (pc[p] = "decide" /\ current_dt[p] >= Ideal(p) /\ pc'[p] # "decide") =>
              /\ pc'[p] = "aborted"
              /\ ~cfile'.open
              /\ current_time'[p] = current_time[p]
              /\ oldGrid'[p] = oldGrid[p]
              /\ newGrid'[p] = newGrid[p]]_vars

-----------------------------------------------------------------------------
(* The failure policy of the equilibrium solve *)

AfterSweep(p) == pc[p] \in {"ghost", "velocity", "allreduce", "decide"}

NotConverged(p) == {i \in LocalNodes : SolveStatus(gsl[p][i]) # "GSL_SUCCESS"}

\* C6: after a sweep every node whose solve did not end with GSL_SUCCESS holds
\* the guesses and is counted in totBadTangents.
C6_FailedSolveReplaced ==
  \A p \in Procs :
    AfterSweep(p) =>
      /\ \A i \in NotConverged(p) : newGrid[p].cells[i].fict.how = "guess"
      /\ totBadTangents[p] = Cardinality(NotConverged(p))

-----------------------------------------------------------------------------
(* The sweep under OpenMP *)

\* C7: during a sweep oldGrid is not written, the body of a node writes only
\* that node of newGrid, and when the sweep ends every node of newGrid is the
\* function of oldGrid that the serial loop computes.
C7_SweepOrderImmaterial ==
  [][\A p \in Procs :
       pc[p] = "sweep" =>
         /\ oldGrid'[p] = oldGrid[p]
         /\ newGrid'[p].lo = newGrid[p].lo /\ newGrid'[p].hi = newGrid[p].hi
         /\ \A i \in LocalNodes :
              task'[p][i] = task[p][i] \/ pc'[p] # "sweep" =>
                newGrid'[p].cells[i] = newGrid[p].cells[i]
         /\ pc'[p] = "ghost" =>
              \A i \in LocalNodes :
                newGrid'[p].cells[i] =
                  SweepCells(oldGrid[p], newGrid[p], p, Cardinality(Procs),
                             current_time[p], current_dt[p], gsl[p])[i].node]_vars

\* a sweep in which the last node was computed before the first one
C7_Witness ==
  /\ pc[0] = "sweep"
  /\ task[0][LastNode] = "done"
  /\ task[0][0] = "todo"
  /\ newGrid[0].cells[LastNode].at # newGrid[0].cells[0].at
  /\ current_time[0] > 0

BadNodes(p) == {i \in LocalNodes : BadTangent(dnrm2sq(gsl[p][i].f))}

\* C8: when a sweep ends totBadTangents is the number of nodes whose residual
\* was above root_tol, and a row of c.log carries the count of its own step.
C8_BadTangentsExact ==
  [][/\ \A p \in Procs :
          (pc[p] = "sweep" /\ pc'[p] = "ghost") =>
            totBadTangents'[p] = Cardinality(BadNodes(p))
     /\ Len(cfile'.rows) > Len(cfile.rows) =>
          LastRow(cfile').bad =
            SumOver([p \in Procs |-> Cardinality(BadNodes(p))], Procs)]_vars

\* two threads wait for the critical section in the second sweep of a run
C8_WitnessContended ==
  /\ pc[0] = "sweep"
  /\ current_time[0] > 0
  /\ updCrit1[0] # -1
  /\ \E i \in LocalNodes : task[0][i] = "enter"

\* a row was written after two sweeps in which every node was counted
C8_Witness ==
  /\ Len(cfile.rows) = 1
  /\ steps = 2
  /\ LastRow(cfile).bad = Cardinality(LocalNodes)
  /\ LastRow(cfile).time = run_time(steps)
  /\ LastRow(cfile).dt = dt

-----------------------------------------------------------------------------
(* The distributed run *)

\* global index of the node a halo cell of rank p of n must hold
LeftId(G, p, n) ==
  IF p = 0 /\ G.b0 = "Neumann" THEN G.cells[0].id
  ELSE ((p + n - 1) % n) * NumNodes + LastNode

RightId(G, p, n) ==
  IF p = n - 1 /\ G.b1 = "Neumann" THEN G.cells[LastNode].id
  ELSE ((p + 1) % n) * NumNodes

\* the stencils of the edge nodes of G read the neighbours' nodes of G's state
HaloFresh(G, p) ==
  LET n == Cardinality(Procs)
  IN /\ Left(G, p, 0).id = LeftId(G, p, n)
     /\ SameState(Left(G, p, 0), G.cells[0])
     /\ Right(G, p, n, LastNode).id = RightId(G, p, n)
     /\ SameState(Right(G, p, n, LastNode), G.cells[LastNode])

\* C9: the sweep reads oldGrid, and maxVelocity and summarize read newGrid,
\* with ghost cells exchanged after the last write of the nodes they copy.
C9_GhostsExchangedBeforeStencil ==
  \A p \in Procs :
    /\ pc[p] = "sweep" => HaloFresh(oldGrid[p], p)
    /\ pc[p] \in {"velocity", "allreduce", "decide"} => HaloFresh(newGrid[p], p)
    /\ InLoop(p) =>
         \A i \in LocalNodes : oldGrid[p].cells[i].ok /\ newGrid[p].cells[i].ok

\* the second sweep of a run whose first step was rejected and then taken
\* with the smaller timestep: it reads the halo exchanged after the retry
C9_Witness ==
  /\ pc[0] = "sweep"
  /\ current_time[0] > 0 /\ current_time[0] < dt
  /\ oldGrid[0].hi.id = NumNodes
  /\ oldGrid[0].hi.at = [t |-> 0, dt |-> current_time[0]]
  /\ newGrid[0].hi.at = NoStamp
  /\ Len(tfile.rows) > 0 /\ tfile.rows[1].kind = "rejected"

\* C10: the partitions take the same decision on every step and have the
\* same current_dt and current_time after it.
C10_PartitionsAgree ==
  \A p \in Procs : \A q \in Procs :
    /\ (pc[p] = "decide" /\ pc[q] = "decide") =>
         /\ interfacialVelocity[p] = interfacialVelocity[q]
         /\ StepAccepted(current_dt[p], Ideal(p))
              <=> StepAccepted(current_dt[q], Ideal(q))
    /\ (pc[p] = pc[q] /\ pc[p] \in {"head", "sweep", "returned"}) =>
         /\ current_dt[p] = current_dt[q]
         /\ current_time[p] = current_time[q]

\* two partitions decide with local maxima that call for different decisions
C10_Witness ==
  /\ pc[0] = "decide" /\ pc[1] = "decide"
  /\ myv[0] < myv[1]
  /\ StepAccepted(current_dt[0], IdealDt(myv[0], current_dt[0]))
  /\ ~StepAccepted(current_dt[1], IdealDt(myv[1], current_dt[1]))
  /\ interfacialVelocity[0] = myv[1]

-----------------------------------------------------------------------------
(* Node-level functions on numeric fields.                                  *)
(*                                                                          *)
(* Compositions are integers counting units of 2.5e-5, the unit of          *)
(* root_tol; a quotient is truncated to a whole unit.  A phase field phi    *)
(* is a numerator k over the denominator PhiDen, and an interpolated        *)
(* fraction h(phi) is a numerator over PhiDen^5, so that the interpolation  *)
(* and the mass balance are exact.                                          *)

One == 40000         \* 1.0, in the unit of the compositions
PhiDen == 2          \* phase fields are multiples of 1 / PhiDen

\* x^n, as pow computes it
RECURSIVE pow(_, _)
pow(x, n) == IF n = 0 THEN 1 ELSE x * pow(x, n - 1)

\* the cubic smoothstep 3 p^2 - 2 p^3, times D^5
hCubic(k, D) == k * k * (3 * D - 2 * k) * D * D

\* h(k / D) * D^5, in the form of h of alloy625.cpp
h(k, D) == k * k * k * (6 * k * k - 15 * k * D + 10 * D * D)

\* hprime(k / D) * D^4
hprime(k, D) == 30 * k * k * (D - k) * (D - k)

fabs(k) == IF k < 0 THEN -k ELSE k

Fields == 0 .. 12

\* a literal of the source given in thousandths
Milli(m) == (m * One) \div 1000

\* a node holding x_Cr, x_Nb and the three phase fields, nothing else yet
BlankNode(xcr, xnb, phi) ==
  [i \in Fields |-> IF i = 0 THEN xcr
                    ELSE IF i = 1 THEN xnb
                    ELSE IF i \in 2 .. 4 THEN phi[i - 1]
                    ELSE 0]

\* line compound with x_Nb = 0.015
guessGamma(G) ==
  LET xcr == G[0]
      xnb == Milli(15)
      xni == Max(epsilon, One - xcr - G[1])
  IN [G EXCEPT ![5] = (xcr * One) \div (xcr + xnb + xni), ![6] = xnb]

guessDelta(G) ==
  LET xcr == G[0]
      xnb == G[1]
      xni == Milli(750)
  IN [G EXCEPT ![7] = (xcr * One) \div (xcr + xnb + xni),
               ![8] = (xnb * One) \div (xcr + xnb + xni)]

\* guessMu normalising by Cr and Ni alone
guessMuNoNb(G) ==
  LET xcr == G[0]
      xnb == Milli(525)
      xni == Max(epsilon, One - xcr - G[1])
  IN [G EXCEPT ![9] = (xcr * One) \div (xcr + xni), ![10] = xnb]

guessMu(G) ==
  LET xcr == G[0]
      xnb == Milli(525)
      xni == Max(epsilon, One - xcr - G[1])
  IN [G EXCEPT ![9] = (xcr * One) \div (xcr + xnb + xni), ![10] = xnb]

guessLaves(G) ==
  LET xcr == G[0]
      xnb == Milli(300)
      xni == Max(epsilon, One - xcr - G[1])
  IN [G EXCEPT ![11] = (xcr * One) \div (xcr + xnb + xni), ![12] = xnb]

guessNode(G) == guessLaves(guessMu(guessDelta(guessGamma(G))))

\* the phase fractions the solver works with, as numerators over PhiDen^5
n_del(G) == h(fabs(G[2]), PhiDen)
n_mu(G) == h(fabs(G[3]), PhiDen)
n_lav(G) == h(fabs(G[4]), PhiDen)
n_gam(G) == pow(PhiDen, 5) - n_del(G) - n_mu(G) - n_lav(G)

\* f[c] of parallelTangent_f for component c (0: Cr, 1: Nb), times PhiDen^5
massResidual(G, c) ==
  G[c] * pow(PhiDen, 5) - n_gam(G) * G[5 + c] - n_del(G) * G[7 + c]
    - n_mu(G) * G[9 + c] - n_lav(G) * G[11 + c]

\* both mass balances hold within root_tol
MassBalanced(G) ==
  \A c \in {0, 1} : fabs(massResidual(G, c)) <= root_tol * pow(PhiDen, 5)

-----------------------------------------------------------------------------
(* One node through generate and update *)

\* update has no numeric node
StepperIdle ==
  /\ pc = <<>> /\ steps = 0 /\ adaptStep = FALSE
  /\ current_time = <<>> /\ current_dt = <<>> /\ logcount = <<>>
  /\ totBadTangents = <<>> /\ oldGrid = <<>> /\ newGrid = <<>>
  /\ myv = <<>> /\ interfacialVelocity = <<>>
  /\ cfile = [open |-> FALSE, rows |-> <<>>]
  /\ tfile = [open |-> FALSE, rows |-> <<>>]
  /\ gsl = <<>> /\ task = <<>> /\ reg = <<>> /\ updCrit1 = <<>> /\ vary = <<>>

\* system compositions of a node: the precipitate and the matrix of the
\* one-dimensional initial condition, and the gamma phase of xCr[0], xNb[0]
Compositions ==
  {<<(125 * One) \div 10000, Milli(250)>>,
   <<(21875 * One) \div 100000, Milli(100)>>,
   <<Milli(300), Milli(20)>>}

\* phase fields of a node: at most one secondary phase present
PhaseFields ==
  {phi \in [1 .. 3 -> 0 .. PhiDen] :
     Cardinality({p \in 1 .. 3 : phi[p] # 0}) <= 1}

\* every phase at the composition of the node
Uniform(G) == [i \in Fields |-> IF i < 5 THEN G[i] ELSE G[(i + 1) % 2]]

\* fictitious compositions the solver may arrive at
Candidates(G) ==
  LET u == Uniform(G)
      g == guessNode(G)
  IN {u} \cup {[u EXCEPT ![o] = g[o], ![o + 1] = g[o + 1]] : o \in {5, 7, 9, 11}}

\* gsl_multiroot_test_residual on the two mass balances; the six other
\* residuals are those of the free energies and are taken as zero
Roots(G) ==
  {R \in Candidates(G) :
     fabs(massResidual(R, 0)) + fabs(massResidual(R, 1))
       < tolerance * pow(PhiDen, 5)}

\* rootsolver::solve and the test of its caller: the roots written back on
\* success, the node as it was when the solver stops short with a small
\* norm, the guesses when the norm is above root_tol
SolveOutcomes(G) ==
  {[f |-> R, how |-> "solved"] : R \in Roots(G)}
    \cup {[f |-> G, how |-> "kept"], [f |-> guessNode(G), how |-> "guess"]}

\* the numeric parts of the state other than part v are not in use
IdleBut(v) ==
  /\ StepperIdle
  /\ IF v = "initGridN" THEN TRUE ELSE initGridN = <<>>
  /\ IF v = "interp" THEN TRUE ELSE interp = <<>>
  /\ IF v = "run" THEN TRUE ELSE run = <<>>
  /\ IF v = "lattice" THEN TRUE ELSE lattice = <<>>
  /\ IF v = "summary" THEN TRUE ELSE summary = <<>>
  /\ IF v = "comp" THEN TRUE ELSE comp = <<>>
  /\ IF v = "parallelTangentSolver" THEN TRUE ELSE parallelTangentSolver = <<>>
  /\ calls = <<>>
  /\ IF v = "energy" THEN TRUE ELSE energy = <<>>

\* the state other than part v is left as it is
KeepBut(v) ==
  /\ UNCHANGED stepper
  /\ IF v = "initGridN" THEN TRUE ELSE UNCHANGED initGridN
  /\ IF v = "interp" THEN TRUE ELSE UNCHANGED interp
  /\ IF v = "run" THEN TRUE ELSE UNCHANGED run
  /\ IF v = "lattice" THEN TRUE ELSE UNCHANGED lattice
  /\ IF v = "summary" THEN TRUE ELSE UNCHANGED summary
  /\ IF v = "comp" THEN TRUE ELSE UNCHANGED comp
  /\ IF v = "parallelTangentSolver" THEN TRUE ELSE UNCHANGED parallelTangentSolver
  /\ UNCHANGED calls
  /\ IF v = "energy" THEN TRUE ELSE UNCHANGED energy

InitNodes ==
  /\ IdleBut("initGridN")
  /\ \E x \in Compositions, phi \in PhaseFields :
       initGridN = [f |-> BlankNode(x[1], x[2], phi), how |-> "blank"]

\* generate, the loop body of lines 313-344
InitialiseNode ==
  /\ initGridN.how = "blank"
  /\ initGridN' \in SolveOutcomes(guessNode(initGridN.f))
  /\ KeepBut("initGridN")

\* update, the loop body for one node: new composition and phase fields,
\* the fictitious compositions copied from the old node, then the solve
RelaxNode ==
  /\ initGridN.how # "blank"
  /\ \E x \in Compositions, phi \in PhaseFields :
       LET N == [i \in Fields |-> IF i < 5 THEN BlankNode(x[1], x[2], phi)[i]
                                  ELSE initGridN.f[i]]
       IN initGridN' \in SolveOutcomes(N)
  /\ KeepBut("initGridN")

NextNode == InitialiseNode \/ RelaxNode

SpecNode == InitNodes /\ [][NextNode]_vars

\* C11: after generate and after every sweep of update every node satisfies
\* both mass balances within the solver tolerance, the nodes that received
\* the guesses included
C11_MassBalanceEverywhere ==
  initGridN.how # "blank" => MassBalanced(initGridN.f)

\* where the solver converged the balance does hold
SolvedNodesBalanced ==
  initGridN.how = "solved" => MassBalanced(initGridN.f)

-----------------------------------------------------------------------------
(* The interpolation function in its three translation units *)

HDen == 5            \* arguments of h are multiples of 1 / (2 * HDen)

\* h of thermo/parabola625.c, times D^5
parabola625_h(k, D) ==
  pow(k, 3) * (6 * pow(k, 2) - 15 * k * D + 10 * pow(D, 2))

\* hprime of thermo/parabola625.c, times D^4
parabola625_hprime(k, D) == 30 * pow(k, 2) * pow(D - k, 2)

\* h of mmsp2frac.cpp, times D^5
mmsp2frac_h(k, D) == k * k * k * (6 * k * k - 15 * k * D + 10 * D * D)

ArgDen == 2 * HDen

\* arguments from -1 to 2
Args == (0 - ArgDen) .. (2 * ArgDen)

NotEvaluated == <<>>

InitInterp ==
  /\ IdleBut("interp")
  /\ \E p \in Args, q \in Args :
       interp = [p |-> p, q |-> q, alloy625 |-> NotEvaluated,
                 parabola625 |-> NotEvaluated, mmsp2frac |-> NotEvaluated]

\* alloy625.cpp evaluates its h and hprime at both arguments
EvalAlloy625 ==
  /\ interp.alloy625 = NotEvaluated
  /\ interp' = [interp EXCEPT !.alloy625 =
                  [h |-> <<h(interp.p, ArgDen), h(interp.q, ArgDen)>>,
                   hprime |-> <<hprime(interp.p, ArgDen), hprime(interp.q, ArgDen)>>]]
  /\ KeepBut("interp")

\* parabola625.c evaluates its h and hprime at both arguments
EvalParabola625 ==
  /\ interp.parabola625 = NotEvaluated
  /\ interp' = [interp EXCEPT !.parabola625 =
                  [h |-> <<parabola625_h(interp.p, ArgDen),
                           parabola625_h(interp.q, ArgDen)>>,
                   hprime |-> <<parabola625_hprime(interp.p, ArgDen),
                                parabola625_hprime(interp.q, ArgDen)>>]]
  /\ KeepBut("interp")

\* mmsp2frac.cpp evaluates its h at both arguments
EvalMmsp2frac ==
  /\ interp.mmsp2frac = NotEvaluated
  /\ interp' = [interp EXCEPT !.mmsp2frac =
                  [h |-> <<mmsp2frac_h(interp.p, ArgDen),
                           mmsp2frac_h(interp.q, ArgDen)>>]]
  /\ KeepBut("interp")

NextInterp == EvalAlloy625 \/ EvalParabola625 \/ EvalMmsp2frac

SpecInterp == InitInterp /\ [][NextInterp]_vars

Evaluated == {u \in {"alloy625", "parabola625", "mmsp2frac"} : interp[u] # NotEvaluated}

\* the values every h takes at 0, 1/2 and 1, and its strict increase on [0, 1]
InterpolatesUnitInterval(v) ==
  /\ interp.p = 0 => v[1] = 0
  /\ interp.p = ArgDen => v[1] = pow(ArgDen, 5)
  /\ 2 * interp.p = ArgDen => 2 * v[1] = pow(ArgDen, 5)
  /\ (0 <= interp.p /\ interp.p < interp.q /\ interp.q <= ArgDen) => v[1] < v[2]

\* C13: h(0) = 0, h(1) = 1, h(1/2) = 1/2, h is strictly increasing on [0, 1],
\* hprime(0) = hprime(1) = 0, and the three definitions of h (and the two of
\* hprime) return the same value for every argument
C13_InterpolationAgrees ==
  /\ \A u \in Evaluated : InterpolatesUnitInterval(interp[u].h)
  /\ \A u \in Evaluated \ {"mmsp2frac"} :
       interp.p \in {0, ArgDen} => interp[u].hprime[1] = 0
  /\ \A u, w \in Evaluated : interp[u].h = interp[w].h
  /\ \A u, w \in Evaluated \ {"mmsp2frac"} : interp[u].hprime = interp[w].hprime

\* all three evaluated at an argument pair inside the unit interval, one of
\* them the midpoint
C13_Witness ==
  /\ Evaluated = {"alloy625", "parabola625", "mmsp2frac"}
  /\ 2 * interp.p = ArgDen /\ interp.q = ArgDen
  /\ interp.alloy625.h[1] > 0

\* the same outside the unit interval
C13_WitnessOutside ==
  /\ Evaluated = {"alloy625", "parabola625", "mmsp2frac"}
  /\ interp.p < 0 /\ interp.q > ArgDen

-----------------------------------------------------------------------------
(* One run of generate or of update on rank 0: the log files, the error     *)
(* paths and the way the function ends.  A FILE* is "null" when fopen       *)
(* failed; fprintf and fclose on a null FILE* are undefined behaviour,      *)
(* whose outcomes are a crash of the process or nothing at all.             *)

MaxDim == 3          \* generate is called with dim in 1 .. MaxDim
MaxSweeps == 2       \* iterations of the loop of update in one run

\* the translation units with a generate: alloy625.cpp and src/alloy625.cpp
\* (cuda625)
Units == {"alloy625", "cuda625"}

SupportedDims(unit) == IF unit = "alloy625" THEN {1, 2} ELSE {2}

\* fopen succeeds or returns NULL
fopen == {"open", "null"}

\* pc after a call passing file f to fprintf or fclose, when the call
\* returning normally leads to position next
ThroughHandle(f, next) == IF f = "null" THEN {"crashed", next} ELSE {next}

InitRun ==
  /\ IdleBut("run")
  /\ \E fn \in {"generate", "update"}, unit \in Units, dim \in 1 .. MaxDim,
        adapt \in BOOLEAN :
       /\ fn = "update" => unit = "alloy625" /\ dim = 1
       /\ unit = "cuda625" => ~adapt
       /\ run = [fn |-> fn, unit |-> unit, dim |-> dim, adapt |-> adapt,
                 pc |-> "entry", cfile |-> "unopened", tfile |-> "unopened",
                 reported |-> FALSE, solved |-> FALSE, sweeps |-> 0,
                 nullWrites |-> 0, written |-> FALSE, exit |-> "none"]

\* generate, lines 165-172 (cuda625: 180-183), and update, lines 696-703
OpenLogs ==
  /\ run.pc = "entry"
  /\ \E c \in fopen, t \in fopen :
       run' = [run EXCEPT !.pc = "opened", !.cfile = c,
                          !.tfile = IF run.adapt THEN t ELSE "unopened"]
  /\ KeepBut("run")

\* generate, a supported dim: the grid is filled and every node solved
BuildGrid ==
  /\ run.fn = "generate" /\ run.pc = "opened"
  /\ run.dim \in SupportedDims(run.unit)
  /\ run' = [run EXCEPT !.pc = "built", !.solved = TRUE]
  /\ KeepBut("run")

\* generate: the first rows of c.log and t.log
FirstRows ==
  /\ run.fn = "generate" /\ run.pc = "built"
  /\ LET nulls == Cardinality({f \in {run.cfile, run.tfile} : f = "null"})
     IN \E c \in ThroughHandle(run.cfile, "logged") :
          \E t \in ThroughHandle(run.tfile, "logged") :
            run' = [run EXCEPT
                      !.pc = IF c = "crashed" THEN c ELSE t,
                      !.nullWrites = IF c = "crashed" THEN 1 ELSE nulls]
  /\ KeepBut("run")

\* generate: output(initGrid, filename)
WriteGrid ==
  /\ run.fn = "generate" /\ run.pc = "logged"
  /\ run' = [run EXCEPT !.pc = "closing", !.written = TRUE]
  /\ KeepBut("run")

\* generate, the last else: alloy625.cpp lines 651-652 print and go on,
\* src/alloy625.cpp lines 296-298 print and call MMSP::Abort(-1)
Unsupported ==
  /\ run.fn = "generate" /\ run.pc = "opened"
  /\ run.dim \notin SupportedDims(run.unit)
  /\ run' = IF run.unit = "alloy625"
            THEN [run EXCEPT !.pc = "closing", !.reported = TRUE]
            ELSE [run EXCEPT !.pc = "aborted", !.reported = TRUE, !.exit = "nonzero"]
  /\ KeepBut("run")

\* update: one iteration of the loop up to the end of the sweep
SweepGrid ==
  /\ run.fn = "update" /\ run.pc \in {"opened", "swept"}
  /\ run.sweeps < MaxSweeps
  /\ run' = [run EXCEPT !.pc = "sweeping", !.sweeps = @ + 1]
  /\ KeepBut("run")

\* update: the rest of the iteration; rows go to c.log and t.log when the
\* step is a logging step, to t.log when the step is rejected
StepRows ==
  /\ run.fn = "update" /\ run.pc = "sweeping"
  /\ \E kind \in {"plain", "logged", "rejected"} :
       LET used == IF kind = "logged" THEN {run.cfile, run.tfile} \ {"unopened"}
                   ELSE IF kind = "rejected" THEN {run.tfile} \ {"unopened"}
                   ELSE {}
       IN \E p \in (IF "null" \in used THEN {"crashed", "swept"} ELSE {"swept"}) :
            run' = [run EXCEPT !.pc = p,
                               !.nullWrites = IF "null" \in used THEN @ + 1 ELSE @]
  /\ KeepBut("run")

\* generate, lines 654-658, and update, lines 906-910: fclose and return
CloseLogs ==
  /\ \/ run.pc = "closing"
     \/ run.fn = "update" /\ run.pc \in {"opened", "swept"}
  /\ \E c \in ThroughHandle(run.cfile, "returned") :
       \E t \in ThroughHandle(run.tfile, "returned") :
         run' = [run EXCEPT !.pc = IF c = "crashed" THEN c ELSE t,
                            !.cfile = IF @ = "open" THEN "closed" ELSE @,
                            !.tfile = IF @ = "open" /\ c # "crashed" THEN "closed" ELSE @]
  /\ KeepBut("run")

NextRun ==
  \/ OpenLogs
  \/ BuildGrid
  \/ FirstRows
  \/ WriteGrid
  \/ Unsupported
  \/ SweepGrid
  \/ StepRows
  \/ CloseLogs

SpecRun == InitRun /\ [][NextRun]_vars

\* C14: generate called with an unsupported dim reports the error and ends
\* the process with a nonzero exit status before a grid is written; it never
\* returns normally
C14_UnsupportedDimFatal ==
  (run.fn = "generate" /\ run.dim \notin SupportedDims(run.unit)) =>
    /\ run.pc # "returned"
    /\ ~run.written
    /\ run.pc = "aborted" => (run.reported /\ run.exit = "nonzero")

\* C15: when c.log or t.log cannot be opened, no node is solved, no sweep is
\* computed and nothing is passed through the null handle
C15_UnopenedLogFatal ==
  "null" \in {run.cfile, run.tfile} =>
    /\ ~run.solved /\ run.sweeps = 0
    /\ run.nullWrites = 0
    /\ run.pc # "returned"

-----------------------------------------------------------------------------
(* Termination of update.  The process runs on: every step of update that  *)
(* can be taken is taken (weak fairness of Next).  The environment may vary *)
(* the velocity in every sweep of the run, without a budget.                *)

InitLive == InitFor(1, 1 .. MaxStepsShort, Unlimited, GslMenu(1, {Converged}))

SpecLive == InitLive /\ [][Next]_vars /\ WF_vars(Next)

-----------------------------------------------------------------------------
(* A one-dimensional grid with numeric fields in update                     *)
(*                                                                          *)
(* Compositions keep their unit (One) and phase fields theirs (PhiDen).     *)
(* The grid spacing is folded into the rates: current_dt * D_NbNb /         *)
(* meshres^2 is current_dt / (2 * dtc) and current_dt * Lmob * kappa /      *)
(* meshres^2 is current_dt / (2 * dtp), with the times in ticks.  The free  *)
(* energies are those of thermo/parabola625.c, with compositions in percent *)
(* and coefficients in units of 1.0e9 J/m^3; the variational derivative is  *)
(* carried in thousandths of kappa / meshres^2.  Quotients are truncated    *)
(* towards zero.  At these rates a phase field moves by about 1.0e-6 in a   *)
(* step, which is below the resolution 1 / PhiDen: the compositions are     *)
(* what moves in this model.                                                *)

GridNodes == 4       \* nodes of the one-dimensional grid
LatticeSweeps == 2   \* sweeps of the loop of update over that grid

D_CrCr == 242        \* 2.42e-15 m^2/s
D_CrNb == 247        \* 2.47e-15 m^2/s
D_NbCr == 43         \* 0.43e-15 m^2/s
D_NbNb == 332        \* 3.32e-15 m^2/s
kappa == 1000        \* kappa[i], the unit of the variational derivative
omega == 269         \* omega[i] * meshres^2 / kappa[i], in thousandths
alpha == 215726      \* alpha * meshres^2 / kappa[i], in thousandths

\* a / b as the floating-point division rounds it here: towards zero
Quot(a, b) == IF a < 0 THEN 0 - ((0 - a) \div b) ELSE a \div b

\* a composition in percent
Pct(c) == Quot(c * 100, One)

\* every term sign enters vanishes at 0
sign(k) == IF k < 0 THEN 0 - 1 ELSE 1

\* in units of 1.0e5 J/m^3
g_gam(XCR, XNB) ==
  LET x == Pct(XCR)
      y == Pct(XNB)
  IN 2 * pow(x - 56, 2) + (15 * x - 821) * (y - 1) + 62 * pow(y - 1, 2)

g_del(XCR, XNB) ==
  LET x == Pct(XCR)
      y == Pct(XNB)
  IN 16 * pow(x - 3, 2) + (18 * x - 57) * (y - 17) + 13 * pow(y - 17, 2)

g_lav(XCR, XNB) ==
  LET x == Pct(XCR)
      y == Pct(XNB)
  IN 7 * pow(x - 44, 2) + (57 * x - 2546) * (y - 17) + 134 * pow(y - 17, 2)

\* parabola625.c has no mu phase; the mu pressure is multiplied by
\* hprime(|phi_mu|), and phi_mu is 0 on every grid of this model
g_mu(XCR, XNB) == g_lav(XCR, XNB)

\* in units of 1.0e7 J/m^3
dg_gam_dxCr(XCR, XNB) == 4 * Pct(XCR) + 15 * Pct(XNB) - 240

dg_gam_dxNb(XCR, XNB) == 15 * Pct(XCR) + 125 * Pct(XNB) - 955

\* PhaseEnergy[i] of the phase whose fictitious composition starts at field o
PhaseEnergy(G, o) ==
  IF o = 5 THEN g_gam(G[5], G[6])
  ELSE IF o = 7 THEN g_del(G[7], G[8])
  ELSE IF o = 9 THEN g_mu(G[9], G[10])
  ELSE g_lav(G[11], G[12])

\* Pressure[i] between the matrix and the precipitate of field o
Pressure(G, o) ==
  PhaseEnergy(G, 5) - PhaseEnergy(G, o)
    - (Pct(G[5]) - Pct(G[o])) * dg_gam_dxCr(G[5], G[6])
    - (Pct(G[6]) - Pct(G[o + 1])) * dg_gam_dxNb(G[5], G[6])

GridSites == 0 .. (GridNodes - 1)

\* the node a stencil reads below the first node: the first node itself
\* under Neumann, the last node of the grid under periodic boundaries
Ghost0Dirichlet(G, b) == [i \in Fields |-> 0]

Ghost0(G, b) == IF b = "Neumann" THEN G[0] ELSE G[GridNodes - 1]

\* the node a stencil reads above the last node
Ghost1(G, b) == IF b = "Neumann" THEN G[GridNodes - 1] ELSE G[0]

NodeAt(G, b0, b1, x) ==
  IF x < 0 THEN Ghost0(G, b0)
  ELSE IF x > GridNodes - 1 THEN Ghost1(G, b1)
  ELSE G[x]

\* a stencil whose weights do not sum to zero
laplacianUnbalanced(G, b0, b1, x) ==
  [i \in Fields |->
     NodeAt(G, b0, b1, x + 1)[i] - G[x][i] + NodeAt(G, b0, b1, x - 1)[i]]

\* laplacian(oldGrid, x) * meshres^2, field by field
laplacian(G, b0, b1, x) ==
  [i \in Fields |->
     NodeAt(G, b0, b1, x + 1)[i] - 2 * G[x][i] + NodeAt(G, b0, b1, x - 1)[i]]

\* delF_delPhi of phase field i, times PhiDen^4, in thousandths of
\* kappa / meshres^2
delF_delPhi(O, laplac, i) ==
  LET k == O[i]
      a == fabs(k)
      o == 2 * i + 3
      others == SumOver([j \in 2 .. 4 |-> IF j = i THEN 0 ELSE O[j] * O[j]], 2 .. 4)
  IN (0 - sign(k)) * hprime(a, PhiDen) * Quot(Pressure(O, o) * 202, 1000)
       + 2 * omega * PhiDen * k * (PhiDen - a) * (PhiDen - a - sign(k) * k)
       + 4 * alpha * PhiDen * k * others
       - kappa * pow(PhiDen, 3) * laplac[i]

\* the loop body up to the solve: the new composition and phase fields from
\* the old node and its laplacian, the fictitious compositions (fields
\* NC + NP = 5 and up) copied from the old node
KernelN(O, laplac, dtv) ==
  [i \in Fields |->
     IF i = 0
       THEN O[0] + Quot(Quot(D_CrCr * laplac[5] + D_CrNb * laplac[6], D_NbNb) * dtv,
                        2 * dtc)
     ELSE IF i = 1
       THEN O[1] + Quot(Quot(D_NbCr * laplac[5] + D_NbNb * laplac[6], D_NbNb) * dtv,
                        2 * dtc)
     ELSE IF i \in 2 .. 4
       THEN O[i] - Quot(Quot(Quot(delF_delPhi(O, laplac, i), 1000) * dtv,
                             pow(PhiDen, 3)), 2 * dtp)
     ELSE O[i]]

\* what the solver and the test of its caller leave in a node; the solver
\* is a function of the node, the same for every node of a run
SolverRules == {"solved", "kept", "guess"}

solveBy(rule, N) ==
  IF rule = "kept" THEN N
  ELSE IF rule = "guess" THEN guessNode(N)
  ELSE LET roots == Roots(N)
       IN IF roots # {} THEN CHOOSE R \in roots : TRUE ELSE guessNode(N)

\* the loop body for node x
UpdateN(G, b0, b1, x, dtv, rule) ==
  solveBy(rule, KernelN(G[x], laplacian(G, b0, b1, x), dtv))

\* the nodes of an initial condition: matrix, delta precipitate, and matrix
\* with Laves phase partly present
NodeKinds ==
  {BlankNode(Milli(300), Milli(20), <<0, 0, 0>>),
   BlankNode((125 * One) \div 10000, Milli(250), <<PhiDen, 0, 0>>),
   BlankNode((21875 * One) \div 100000, Milli(100), <<0, 0, 1>>)}

\* timesteps the controller arrives at: dt, dt * scaleup, timelimit
DtChoices == {dt, timelimit}

Symmetric(G) == \A x \in GridSites : G[x] = G[GridNodes - 1 - x]

Flat(G) == \A x \in GridSites : G[x] = G[0]

\* initial conditions: the profiles mirrored about the midpoint, and those
\* with another node in the first place
Mirrored(half) == [x \in GridSites |-> half[Min(x, GridNodes - 1 - x)]]

Profiles ==
  LET sym == {Mirrored(half) : half \in [0 .. ((GridNodes - 1) \div 2) -> NodeKinds]}
  IN sym \cup {[s EXCEPT ![0] = k] : s \in sym, k \in NodeKinds}

\* the grid as read from the file generate or an earlier run wrote; its
\* boundary conditions are those of the file
InitLattice ==
  /\ IdleBut("lattice")
  /\ \E kinds \in Profiles, rule \in SolverRules, b \in {"periodic", "Neumann"} :
       LET G == [x \in GridSites |-> solveBy(rule, guessNode(kinds[x]))]
       IN lattice = [pc |-> "loaded", oldGrid |-> G, newGrid |-> G, first |-> G,
                     b0 |-> b, b1 |-> b, rule |-> rule, sweeps |-> 0,
                     accepted |-> <<>>]

\* lines 673-694 on a single process: x0 = g0 holds, so the else branch
\* that would tag b1 is not taken
EnterLattice ==
  /\ lattice.pc = "loaded"
  /\ lattice' = [lattice EXCEPT !.pc = "loop", !.b0 = "Neumann"]
  /\ KeepBut("lattice")

Swept(L, dtv) ==
  [x \in GridSites |->
     UpdateN(L.oldGrid, L.b0, L.b1, x, dtv, L.rule)]

\* one iteration of the loop that ends in the accepted branch
LatticeAccept ==
  /\ lattice.pc = "loop"
  /\ lattice.sweeps < LatticeSweeps
  /\ \E dtv \in DtChoices :
       lattice' = [lattice EXCEPT !.oldGrid = Swept(lattice, dtv),
                                  !.newGrid = lattice.oldGrid,
                                  !.sweeps = @ + 1,
                                  !.accepted = Append(@, dtv)]
  /\ KeepBut("lattice")

\* one iteration that ends in the rejected branch: newGrid keeps the sweep
LatticeReject ==
  /\ lattice.pc = "loop"
  /\ lattice.sweeps < LatticeSweeps
  /\ \E dtv \in DtChoices :
       lattice' = [lattice EXCEPT !.newGrid = Swept(lattice, dtv),
                                  !.sweeps = @ + 1]
  /\ KeepBut("lattice")

NextLattice == EnterLattice \/ LatticeAccept \/ LatticeReject

SpecLattice == InitLattice /\ [][NextLattice]_vars

\* C16: a grid that was symmetric about its midpoint when update was
\* entered is symmetric about its midpoint after every accepted step,
\* whatever the timesteps of the steps
C16_SymmetryPreserved ==
  (lattice.pc = "loop" /\ Symmetric(lattice.first)) => Symmetric(lattice.oldGrid)

\* two accepted steps with different timesteps on a symmetric grid that is
\* not uniform, with the upper boundary left periodic, have moved the
\* compositions
C16_Witness ==
  /\ lattice.pc = "loop"
  /\ Symmetric(lattice.first) /\ ~Flat(lattice.first)
  /\ lattice.b1 = "periodic"
  /\ Len(lattice.accepted) = 2 /\ lattice.accepted[1] # lattice.accepted[2]
  /\ \E x \in GridSites : lattice.oldGrid[x][0] # lattice.first[x][0]
  /\ Symmetric(lattice.oldGrid)

\* the grid-wide sum of component c (0: Cr, 1: Nb), as summarize adds it up
TotalOf(G, c) == SumOver([x \in GridSites |-> G[x][c]], GridSites)

\* C17: on a grid whose fields are uniform every accepted step leaves the
\* system composition of every node, and so the total Cr and Nb content of
\* the grid, as it was before the step
C17_UniformKeepsComposition ==
  (lattice.pc = "loop" /\ Flat(lattice.first)) =>
    /\ \A x \in GridSites, c \in {0, 1} :
         lattice.oldGrid[x][c] = lattice.first[x][c]
    /\ \A c \in {0, 1} : TotalOf(lattice.oldGrid, c) = TotalOf(lattice.first, c)

\* a uniform grid holding delta phase, after accepted steps with two
\* different timesteps
C17_Witness ==
  /\ lattice.pc = "loop"
  /\ Flat(lattice.first) /\ lattice.first[0][2] = PhiDen
  /\ Len(lattice.accepted) = 2 /\ lattice.accepted[1] # lattice.accepted[2]
  /\ TotalOf(lattice.oldGrid, 0) = TotalOf(lattice.first, 0)
  /\ TotalOf(lattice.oldGrid, 1) = TotalOf(lattice.first, 1)

-----------------------------------------------------------------------------
(* summarize over the partitions of a grid                                  *)
(*                                                                          *)
(* The entries of the summary vector are fractions n / d: the sums keep     *)
(* their unit in the numerator and the division by Ntot multiplies the      *)
(* denominator, so that the means are exact.  The free energy is carried    *)
(* times 4 * PhiDen^5, in thousandths of kappa / meshres^2 per node volume; *)
(* the velocity in millionths of meshres per tick.                          *)

Slots == 0 .. 7

\* the rank that owns node x when the grid is cut at the places in cuts
Owner(x, cuts) == Cardinality({c \in cuts : c <= x})

NodesOf(r, cuts) == {x \in GridSites : Owner(x, cuts) = r}

\* MMSP::gradient of field i at node x, times 2 * meshres; across a cut it
\* reads the ghost cell, which holds the neighbour's node since the
\* ghostswap that precedes every summarize
gradient(G, b0, b1, x, i) ==
  NodeAt(G, b0, b1, x + 1)[i] - NodeAt(G, b0, b1, x - 1)[i]

\* gibbs(v), times PhiDen^5
gibbs(v) ==
  LET D == PhiDen
      vsq == [i \in 2 .. 4 |-> v[i] * v[i]]
      diagonal == SumOver(vsq, 2 .. 4)
      vsqvsq == SumOver([i \in 2 .. 4 |-> vsq[i] * vsq[i]], 2 .. 4)
      J(g) == Quot(g * 202, 1000)
  IN n_gam(v) * J(g_gam(v[5], v[6]))
       + n_del(v) * J(g_del(v[7], v[8]))
       + n_mu(v) * J(g_mu(v[9], v[10]))
       + n_lav(v) * J(g_lav(v[11], v[12]))
       + omega * D * SumOver([i \in 2 .. 4 |-> vsq[i] * pow(D - fabs(v[i]), 2)], 2 .. 4)
       + alpha * D * (vsqvsq - D * D * diagonal)

\* myVelocity of node x
nodeVelocity(G, O, b0, b1, x, dtv) ==
  LET frac == [i \in 2 .. 4 |-> h(fabs(G[x][i]), PhiDen)]
      secondaries == SumOver(frac, 2 .. 4)
      v(i) ==
        LET magGrad == fabs(gradient(G, b0, b1, x, i))
        IN IF /\ magGrad > 0
              /\ 10 * frac[i] > 3 * pow(PhiDen, 5)
              /\ 10 * frac[i] < 7 * pow(PhiDen, 5)
             THEN Quot(Quot(2000000 * fabs(G[x][i] - O[x][i]) * frac[i],
                            magGrad * secondaries), dtv)
             ELSE 0
  IN IF secondaries > 0 THEN SumOver([i \in 2 .. 4 |-> v(i)], 2 .. 4) ELSE 0

\* mySummary of node x, entries 0 to 6
mySummary(G, b0, b1, x) ==
  LET v == G[x]
      gradSq == SumOver([i \in 2 .. 4 |-> pow(gradient(G, b0, b1, x, i), 2)], 2 .. 4)
  IN [s \in 0 .. 6 |->
        IF s < 2 THEN v[s]
        ELSE IF s = 2 THEN n_gam(v)
        ELSE IF s = 3 THEN n_del(v)
        ELSE IF s = 4 THEN n_mu(v)
        ELSE IF s = 5 THEN n_lav(v)
        ELSE 4 * gibbs(v) + kappa * pow(PhiDen, 3) * gradSq]

\* the unit of slot s before the division by Ntot
SlotDen(s) == IF s < 2 THEN One ELSE IF s < 6 THEN pow(PhiDen, 5) ELSE 1

\* the loop over the nodes S of one partition and the division by Ntot
\* (lines 1518-1583)
LocalSummary(G, O, b0, b1, S, dtv) ==
  [s \in Slots |->
     IF s = 7
       THEN [n |-> MaxOver([x \in S |-> nodeVelocity(G, O, b0, b1, x, dtv)], S, 0),
             d |-> 1]
     ELSE [n |-> SumOver([x \in S |-> mySummary(G, b0, b1, x)[s]], S),
           d |-> IF s < 6 THEN SlotDen(s) * GridNodes ELSE 1]]

\* lines 1585-1595 on rank r: the sums arrive on rank 0 only, the maximum
\* on every rank
Reduced(local, r) ==
  [s \in Slots |->
     IF s = 7
       THEN [n |-> AllreduceMax([q \in DOMAIN local |-> local[q][7].n], r), d |-> 1]
     ELSE IF r = 0
       THEN [n |-> ReduceSum([q \in DOMAIN local |-> local[q][s].n]),
             d |-> local[r][s].d]
     ELSE local[r][s]]

\* the grids summarize is called on: the guesses of the profiles, and for
\* the old grid the Laves phase field of one node moved
OldGrids(G) ==
  {G} \cup {[G EXCEPT ![x][4] = (G[x][4] + 1) % (PhiDen + 1)] : x \in GridSites}

Cuts ==
  {c \in SUBSET (1 .. (GridNodes - 1)) : Cardinality(c) < MaxRanks}

InitSummary ==
  /\ IdleBut("summary")
  /\ \E kinds \in Profiles, cuts \in Cuts, b \in {"periodic", "Neumann"} :
       LET G == [x \in GridSites |-> guessNode(kinds[x])]
       IN \E O \in OldGrids(G) :
            summary = [pc |-> "swapped", newGrid |-> G, oldGrid |-> O,
                       b0 |-> "Neumann", b1 |-> b, dt |-> dt, cuts |-> cuts,
                       local |-> <<>>, out |-> <<>>]

SummaryRanks == 0 .. Cardinality(summary.cuts)

\* rank r runs its loop
SumPartition(r) ==
  /\ summary.pc = "swapped"
  /\ r \notin DOMAIN summary.local
  /\ summary' =
       [summary EXCEPT !.local =
          [q \in DOMAIN @ \cup {r} |->
             IF q = r
               THEN LocalSummary(summary.newGrid, summary.oldGrid, summary.b0,
                                 summary.b1, NodesOf(r, summary.cuts), summary.dt)
               ELSE @[q]]]
  /\ KeepBut("summary")

\* the barrier and the reductions, once every rank has its sums
ReduceSummary ==
  /\ summary.pc = "swapped"
  /\ DOMAIN summary.local = SummaryRanks
  /\ summary' = [summary EXCEPT !.pc = "returned",
                                !.out = [r \in SummaryRanks |-> Reduced(summary.local, r)]]
  /\ KeepBut("summary")

NextSummary == (\E r \in SummaryRanks : SumPartition(r)) \/ ReduceSummary

SpecSummary == InitSummary /\ [][NextSummary]_vars

\* what one rank computes over the whole grid
WholeGrid ==
  LocalSummary(summary.newGrid, summary.oldGrid, summary.b0, summary.b1,
               GridSites, summary.dt)

-----------------------------------------------------------------------------
(* generate: the composition of the initial condition                       *)
(*                                                                          *)
(* The two-dimensional grid is GenX by GenY nodes and the particles have    *)
(* the squared radius ParticleRadiusSq, in nodes.  The matrix composition   *)
(* is a quotient by the number of matrix nodes: the grid generate leaves    *)
(* holds the numerators, and comp.den the common denominator.  The          *)
(* Composition accumulator has the slots 0 .. NP - 1 of the precipitates    *)
(* and the slot NP of the enrichment, as generate, enrichMatrix and         *)
(* embedParticle index it.                                                  *)

GenX == 4               \* nodes along x
GenY == 2               \* nodes along y
MaxParticles == 2       \* calls of embedParticle
ParticleRadiusSq == 2   \* rprcp^2

\* two components; three secondary phases: xCr[NP + 2] has five entries and
\* a node thirteen fields
NC == 2
NP == 3

Sites2 == (0 .. (GenX - 1)) \X (0 .. (GenY - 1))

\* xCr and xNb: nominal gamma, delta, mu, Laves, excess of the enriched gamma
xCr == <<Milli(300), (125 * One) \div 10000, Milli(40), (3875 * One) \div 10000, Milli(10)>>

xNb == <<Milli(20), Milli(250), Milli(500), Milli(250), Milli(110)>>

\* standard deviations of the enrichment, in nodes: bell[c] / meshres; on
\* the small grids of the model every column lies within the bell
bellNodes == <<30, 10>>

\* exp(-(x - m)^2 / (2 s^2)) in thousandths, by its series up to the
\* second order; the argument is below 0.1 on the grids of the model
bellCurve(x, m, s) ==
  LET u == Quot(1000 * (x - m) * (x - m), 2 * s * s)
  IN 1000 - u + Quot(u * u, 2000)

\* the composition enrichMatrix writes at column x
Enrichment(x, c) ==
  LET excess == IF c = 0 THEN xCr[5] ELSE xNb[5]
  IN Quot(excess * bellCurve(x, GenX \div 2, bellNodes[c + 1]), 1000)

EmptyComposition ==
  [x |-> [i \in 0 .. NP |-> <<0, 0>>], N |-> [i \in 0 .. NP |-> 0]]

\* Composition::operator+=
AddComposition(a, b) ==
  [x |-> [i \in 0 .. NP |-> <<a.x[i][1] + b.x[i][1], a.x[i][2] + b.x[i][2]>>],
   N |-> [i \in 0 .. NP |-> a.N[i] + b.N[i]]]

\* enrichMatrix: the grid it writes and the Composition it returns
enrichMatrixGrid ==
  [s \in Sites2 |-> [c |-> <<Enrichment(s[1], 0), Enrichment(s[1], 1)>>,
                     phi |-> [i \in NC .. (NC + NP - 1) |-> 0]]]

enrichMatrix ==
  [EmptyComposition EXCEPT
     !.x[NP] = <<SumOver([s \in Sites2 |-> Enrichment(s[1], 0)], Sites2),
                 SumOver([s \in Sites2 |-> Enrichment(s[1], 1)], Sites2)>>]

\* the nodes of the grid within the particle at origin
Within(origin) ==
  {s \in Sites2 :
     (s[1] - origin[1]) * (s[1] - origin[1])
       + (s[2] - origin[2]) * (s[2] - origin[2]) < ParticleRadiusSq}

\* embedParticle: the grid it leaves and the Composition it returns
embedParticleGrid(GRID, origin, pid) ==
  [s \in Sites2 |->
     IF s \in Within(origin)
       THEN [c |-> <<xCr[pid - NC + 2], xNb[pid - NC + 2]>>,
             phi |-> [GRID[s].phi EXCEPT ![pid] = PhiDen]]
       ELSE GRID[s]]

embedParticle(origin, pid) ==
  LET n == Cardinality(Within(origin))
  IN [EmptyComposition EXCEPT
        !.x[pid - NC] = <<n * xCr[pid - NC + 2], n * xNb[pid - NC + 2]>>,
        !.N[pid - NC] = n]

\* Nmat, and the numerator of the matrix composition of component c
Nmat(acc) == GenX * GenY - SumOver(acc.N, 0 .. NP)

matNum(acc, c) ==
  LET target == IF c = 0 THEN xCr[1] ELSE xNb[1]
  IN GenX * GenY * target - SumOver([i \in 0 .. NP |-> acc.x[i][c + 1]], 0 .. NP)

\* nx < epsilon: no secondary phase at the node
PureGamma(node) ==
  SumOver([i \in NC .. (NC + NP - 1) |-> h(fabs(node.phi[i]), PhiDen)],
          NC .. (NC + NP - 1)) < epsilon

\* lines 566-593: the matrix composition added to the nodes of pure gamma;
\* every composition of the result is a numerator over Nmat
FillMatrix(GRID, acc) ==
  [s \in Sites2 |->
     [GRID[s] EXCEPT !.c =
        IF PureGamma(GRID[s])
          THEN <<@[1] * Nmat(acc) + matNum(acc, 0), @[2] * Nmat(acc) + matNum(acc, 1)>>
          ELSE <<@[1] * Nmat(acc), @[2] * Nmat(acc)>>]]

\* the one-dimensional grids: Nx nodes, the first Nx / 3 of them precipitate
PlanarSizes == 3 .. (GenX + GenY)

Csstm == <<Milli(150), Milli(150)>>

Cprcp == <<(125 * One) \div 10000, Milli(250)>>

\* lines 229-254: numerators over Nmtrx
PlanarGrid(Nx) ==
  LET Nprcp == Nx \div 3
      Nmtrx == Nx - Nprcp
  IN [x \in 0 .. (Nx - 1) |->
        IF x < Nprcp
          THEN [c |-> <<Cprcp[1] * Nmtrx, Cprcp[2] * Nmtrx>>,
                phi |-> [i \in NC .. (NC + NP - 1) |-> IF i = NC THEN PhiDen ELSE 0]]
          ELSE [c |-> <<Csstm[1] * Nx - Cprcp[1] * Nprcp,
                        Csstm[2] * Nx - Cprcp[2] * Nprcp>>,
                phi |-> [i \in NC .. (NC + NP - 1) |-> 0]]]

InitGenerate ==
  /\ IdleBut("comp")
  /\ \E d \in {1, 2} :
       comp = [pc |-> "start", dim |-> d, grid |-> <<>>, acc |-> EmptyComposition,
               placed |-> 0, den |-> 1, target |-> <<0, 0>>]

\* dim = 1: the planar interface
Planar ==
  /\ comp.pc = "start" /\ comp.dim = 1
  /\ \E Nx \in PlanarSizes :
       comp' = [comp EXCEPT !.pc = "filled", !.grid = PlanarGrid(Nx),
                            !.den = Nx - Nx \div 3, !.target = Csstm]
  /\ KeepBut("comp")

\* dim = 2: the fields zeroed and the matrix enriched (lines 411-419)
EnrichMatrix ==
  /\ comp.pc = "start" /\ comp.dim = 2
  /\ comp' = [comp EXCEPT !.pc = "seeding", !.grid = enrichMatrixGrid,
                          !.acc = AddComposition(@, enrichMatrix),
                          !.target = <<xCr[1], xNb[1]>>]
  /\ KeepBut("comp")

\* one more particle; delta, mu and Laves take turns, and matrix must remain
EmbedParticle ==
  /\ comp.pc = "seeding"
  /\ comp.placed < MaxParticles
  /\ \E origin \in Sites2 :
       LET pid == NC + (comp.placed % NP)
           acc == AddComposition(comp.acc, embedParticle(origin, pid))
       IN /\ Nmat(acc) > 0
          /\ comp' = [comp EXCEPT !.grid = embedParticleGrid(@, origin, pid),
                                  !.acc = acc, !.placed = @ + 1]
  /\ KeepBut("comp")

\* the matrix composition computed and added (lines 566-593)
RebalanceMatrix ==
  /\ comp.pc = "seeding"
  /\ comp' = [comp EXCEPT !.pc = "filled", !.grid = FillMatrix(@, comp.acc),
                          !.den = Nmat(comp.acc)]
  /\ KeepBut("comp")

NextGenerate == Planar \/ EnrichMatrix \/ EmbedParticle \/ RebalanceMatrix

SpecGenerate == InitGenerate /\ [][NextGenerate]_vars

\* the grid-wide sum of component c, times comp.den
GridTotal(c) ==
  SumOver([s \in DOMAIN comp.grid |-> comp.grid[s].c[c + 1]], DOMAIN comp.grid)

MeanIsTarget ==
  \A c \in {0, 1} :
    GridTotal(c) = Cardinality(DOMAIN comp.grid) * comp.target[c + 1] * comp.den

\* C19: the grid generate leaves has the target composition as its
\* grid-wide mean, in one and in two dimensions
C19_MeanCompositionIsTarget == comp.pc = "filled" => MeanIsTarget

\* the one-dimensional initial condition does have the target mean
PlanarMeanIsTarget == (comp.pc = "filled" /\ comp.dim = 1) => MeanIsTarget

\* in two dimensions the mean falls short of the target by the enrichment
\* that enrichMatrix wrote at the nodes the particles then took over, as
\* long as no two particles overlap
NoOverlap == SumOver(comp.acc.N, 0 .. NP) = Cardinality({s \in Sites2 : ~PureGamma(comp.grid[s])})

ShortByCoveredEnrichment ==
  (comp.pc = "filled" /\ comp.dim = 2 /\ NoOverlap) =>
    \A c \in {0, 1} :
      GridTotal(c)
        = comp.den * (GenX * GenY * comp.target[c + 1]
                       - SumOver([s \in Sites2 |->
                                    IF PureGamma(comp.grid[s]) THEN 0
                                    ELSE Enrichment(s[1], c)], Sites2))

-----------------------------------------------------------------------------
(* Boundary tags of update, lines 682-694                                    *)

\* the sides of the axis on which partition p of n touches the domain edge
\* carry the Neumann tag in buffer G
EdgesTagged(G, p, n) ==
  /\ (p = 0 => G.b0 = "Neumann")
  /\ (p = n - 1 => G.b1 = "Neumann")

\* C21: once update has passed its boundary tagging, every side on which a
\* partition touches the edge of the domain is tagged Neumann on oldGrid and
\* on newGrid; a partition that touches both edges has both b0 and b1 tagged
C21_BothEdgesTagged ==
  \A p \in Procs :
    pc[p] # "entry" =>
      /\ EdgesTagged(oldGrid[p], p, Cardinality(Procs))
      /\ EdgesTagged(newGrid[p], p, Cardinality(Procs))

\* on more than one process no partition touches both edges
SplitDomainTagged ==
  Cardinality(Procs) > 1 => C21_BothEdgesTagged

\* what a single process is left with
SingleProcessUpperEdge ==
  \A p \in Procs :
    (pc[p] # "entry" /\ Cardinality(Procs) = 1) =>
      /\ oldGrid[p].b0 = "Neumann" /\ newGrid[p].b0 = "Neumann"
      /\ oldGrid[p].b1 = "periodic" /\ newGrid[p].b1 = "periodic"

-----------------------------------------------------------------------------
(* Sweeps without a moving interface, lines 846-850 and 883-885              *)

\* rank p leaves the decision of a sweep whose velocity is at most epsilon
QuietStep(p) ==
  /\ pc[p] = "decide" /\ pc'[p] # "decide"
  /\ interfacialVelocity[p] <= epsilon

\* C22: a sweep whose maximum interfacial velocity is at most epsilon has
\* ideal_dt = 2 * current_dt, is accepted (time advances by the timestep,
\* the loop goes on, nothing is aborted or retried) and leaves current_dt
\* as it is; the value maxVelocity returns is never negative
C22_QuietStepAccepted ==
  /\ [](\A p \in Procs :
          /\ pc[p] = "allreduce" => myv[p] >= 0
          /\ pc[p] = "decide" => interfacialVelocity[p] >= 0)
  /\ [][\A p \in Procs :
          QuietStep(p) =>
            /\ Ideal(p) = 2 * current_dt[p]
            /\ current_dt[p] < Ideal(p)
            /\ pc'[p] = "head"
            /\ current_time'[p] = current_time[p] + current_dt[p]
            /\ current_dt'[p] = current_dt[p]
            /\ newGrid'[p] = oldGrid[p]]_vars

\* two quiet sweeps in a row were accepted under adaptive stepping: the
\* time is two initial timesteps and the timestep has not grown
C22_Witness ==
  /\ adaptStep
  /\ pc[0] = "head"
  /\ current_time[0] = 2 * dt
  /\ current_dt[0] = dt

-----------------------------------------------------------------------------
(* rootsolver::solve on a numeric node, and the test of its caller          *)

\* all fields of a node: 0-12 and the velocity slot
AllFields == 0 .. 13

\* lines 1393-1448: the node afterwards, given the iterate x and the
\* residual the GSL solver stopped with
rootsolverSolve(GRIDN, x, g) ==
  IF SolveStatus(g) = "GSL_SUCCESS"
    THEN [i \in AllFields |-> IF i \in 5 .. 12 THEN x[i] ELSE GRIDN[i]]
    ELSE GRIDN

\* nodes solve is called on: a composition, phase fields, fictitious
\* compositions copied from the old node, and a velocity of an earlier summary
SolverNodes ==
  {[i \in AllFields |->
      IF i < 5 THEN BlankNode(x[1], x[2], phi)[i]
      ELSE IF i = 13 THEN vel
      ELSE IF copied = "guess" THEN guessNode(BlankNode(x[1], x[2], phi))[i]
      ELSE 0] :
     x \in Compositions, phi \in PhaseFields, vel \in {0, 7},
     copied \in {"guess", "blank"}}

InitSolver ==
  /\ IdleBut("parallelTangentSolver")
  /\ \E N \in SolverNodes, g \in GslOutcomes :
       \E x \in Candidates(N) :
         parallelTangentSolver =
           [pc |-> "set", GRIDN |-> N, entry |-> N, x |-> x, gsl |-> g,
            status |-> "GSL_CONTINUE", res2 |-> 0, bad |-> 0]

\* update line 822: the call of solve
SolveNode ==
  /\ parallelTangentSolver.pc = "set"
  /\ parallelTangentSolver' =
       [parallelTangentSolver EXCEPT
          !.pc = "returned",
          !.GRIDN = rootsolverSolve(@, parallelTangentSolver.x,
                                    parallelTangentSolver.gsl),
          !.status = SolveStatus(parallelTangentSolver.gsl),
          !.res2 = dnrm2sq(parallelTangentSolver.gsl.f)]
  /\ KeepBut("parallelTangentSolver")

\* update lines 824-837: the caller's test of the returned norm
TestResidual ==
  /\ parallelTangentSolver.pc = "returned"
  /\ parallelTangentSolver' =
       IF BadTangent(parallelTangentSolver.res2)
         THEN [parallelTangentSolver EXCEPT
                 !.pc = "tested", !.bad = 1, !.GRIDN = guessNode(@)]
         ELSE [parallelTangentSolver EXCEPT !.pc = "tested"]
  /\ KeepBut("parallelTangentSolver")

NextSolver == SolveNode \/ TestResidual

SpecSolver == InitSolver /\ [][NextSolver]_vars

\* C23: solve leaves fields 0-4 and the velocity slot as they were; it
\* writes fields 5-12 only when the solver stopped with success, then the
\* norm it returns is not above root_tol and the caller keeps the roots;
\* otherwise fields 5-12 are as on entry when solve returns
C23_SolveWritesOnlyOnSuccess ==
  LET s == parallelTangentSolver
  IN /\ s.pc = "returned" =>
          /\ \A i \in (0 .. 4) \cup {13} : s.GRIDN[i] = s.entry[i]
          /\ s.status = "GSL_SUCCESS" =>
               /\ \A i \in 5 .. 12 : s.GRIDN[i] = s.x[i]
               /\ ~BadTangent(s.res2)
          /\ s.status # "GSL_SUCCESS" => s.GRIDN = s.entry
     /\ (s.pc = "tested" /\ s.status = "GSL_SUCCESS") =>
          /\ s.bad = 0
          /\ \A i \in 5 .. 12 : s.GRIDN[i] = s.x[i]

\* a converged solve has replaced the fictitious compositions of a node
\* that has a secondary phase, and the caller has kept them
C23_Witness ==
  LET s == parallelTangentSolver
  IN /\ s.pc = "tested"
     /\ s.status = "GSL_SUCCESS"
     /\ s.entry[2] # 0
     /\ s.entry[13] # 0
     /\ \E i \in 5 .. 12 : s.GRIDN[i] # s.entry[i]
     /\ s.bad = 0

\* the solver stopped short with a small norm: the node keeps its entry values
StoppedShortKept ==
  LET s == parallelTangentSolver
  IN (s.pc = "tested" /\ s.status # "GSL_SUCCESS" /\ s.bad = 0) =>
       s.GRIDN = s.entry

-----------------------------------------------------------------------------
(* A sweep into a newGrid that holds an earlier attempt                     *)
(*                                                                          *)
(* The run of update is followed together with a second run that takes      *)
(* only the accepted sweeps, each with the timestep it was accepted with:   *)
(* direct and directNew are the oldGrid and newGrid of that run.            *)

\* a loop body that adds the increments of the composition to the new node
KernelIntoAdding(Nw, O, laplac, dtv) ==
  LET k == KernelN(O, laplac, dtv)
  IN [i \in AllFields |->
        IF i < 2 THEN Nw[i] + (k[i] - O[i])
        ELSE IF i < 13 THEN k[i]
        ELSE Nw[i]]

\* lines 742-819 on the node Nw of newGrid: fields 0-4 are assigned from
\* the old node, fields NC + NP .. fields - 2 are copied from it, the last
\* field is left as it is
KernelInto(Nw, O, laplac, dtv) ==
  LET k == KernelN(O, laplac, dtv)
  IN [i \in AllFields |-> IF i < 13 THEN k[i] ELSE Nw[i]]

\* lines 821-837 on a node of all fields
solveInto(rule, N) ==
  LET s == solveBy(rule, [i \in Fields |-> N[i]])
  IN [i \in AllFields |-> IF i < 13 THEN s[i] ELSE N[i]]

\* one sweep over the grid: newGrid afterwards
SweptInto(Nw, O, b0, b1, dtv, rule) ==
  [x \in GridSites |->
     solveInto(rule, KernelInto(Nw[x], O[x], laplacian(O, b0, b1, x), dtv))]

InitRetry ==
  /\ IdleBut("lattice")
  /\ \E kinds \in Profiles, rule \in SolverRules, b \in {"periodic"} :
       LET G == [x \in GridSites |->
                   [i \in AllFields |->
                      IF i < 13 THEN solveBy(rule, guessNode(kinds[x]))[i] ELSE 0]]
       IN lattice = [pc |-> "loaded", oldGrid |-> G, newGrid |-> G,
                     direct |-> G, directNew |-> G,
                     b0 |-> b, b1 |-> b, rule |-> rule, sweeps |-> 0,
                     rejected |-> <<>>, accepted |-> <<>>]

\* a sweep that ends in the rejected branch (887-893): newGrid keeps what
\* the sweep wrote, the second run does not take the sweep
RetryReject ==
  /\ lattice.pc = "loop"
  /\ lattice.sweeps < LatticeSweeps
  /\ \E dtv \in DtChoices :
       lattice' = [lattice EXCEPT
                     !.newGrid = SweptInto(@, lattice.oldGrid, lattice.b0,
                                           lattice.b1, dtv, lattice.rule),
                     !.sweeps = @ + 1,
                     !.rejected = Append(@, dtv)]
  /\ KeepBut("lattice")

\* a sweep that ends in the accepted branch (850-886): the buffers are
\* swapped, in both runs
RetryAccept ==
  /\ lattice.pc = "loop"
  /\ lattice.sweeps < LatticeSweeps
  /\ \E dtv \in DtChoices :
       lattice' = [lattice EXCEPT
                     !.oldGrid = SweptInto(lattice.newGrid, lattice.oldGrid,
                                           lattice.b0, lattice.b1, dtv,
                                           lattice.rule),
                     !.newGrid = lattice.oldGrid,
                     !.direct = SweptInto(lattice.directNew, lattice.direct,
                                          lattice.b0, lattice.b1, dtv,
                                          lattice.rule),
                     !.directNew = lattice.direct,
                     !.sweeps = @ + 1,
                     !.rejected = <<>>,
                     !.accepted = Append(@, dtv)]
  /\ KeepBut("lattice")

NextRetry == EnterLattice \/ RetryReject \/ RetryAccept

SpecRetry == InitRetry /\ [][NextRetry]_vars

\* C24: fields 0-12 of the state update commits are those the run without
\* the rejected attempts commits: what a sweep writes does not depend on
\* what newGrid held before it
C24_RetryIndependentOfNewGrid ==
  lattice.pc = "loop" =>
    \A x \in GridSites, i \in Fields : lattice.oldGrid[x][i] = lattice.direct[x][i]

\* a step was accepted with the timestep dt after an attempt with timelimit
\* had been rejected; the rejected attempt had changed a composition of
\* newGrid, and the accepted one has changed it otherwise
C24_Witness ==
  /\ lattice.pc = "loop"
  /\ lattice.accepted = <<dt>>
  /\ lattice.sweeps = 2
  /\ \E x \in GridSites :
       /\ lattice.oldGrid[x][0] # lattice.newGrid[x][0]
       /\ lattice.oldGrid[x][0] #
            SweptInto(lattice.newGrid, lattice.newGrid, lattice.b0, lattice.b1,
                      timelimit, lattice.rule)[x][0]

-----------------------------------------------------------------------------
(* The simulated time of an adaptive run, lines 706-731 and 850-852         *)

\* C25: under adaptive stepping the simulated time of every rank stays
\* within 0 and run_time = dt * steps, and from the loop head to the
\* decision the timestep of the sweep is at most the time that remains
C25_TimeWithinRunTime ==
  adaptStep =>
    \A p \in Procs :
      /\ 0 <= current_time[p]
      /\ current_time[p] <= run_time(steps)
      /\ pc[p] \in {"sweep", "ghost", "velocity", "allreduce", "decide"} =>
           current_dt[p] <= run_time(steps) - current_time[p]

\* the timestep had grown, the last sweep was clipped to the remaining
\* time, and its acceptance has brought the time to run_time exactly
C25_Witness ==
  /\ adaptStep
  /\ steps = 3
  /\ pc[0] = "head"
  /\ current_time[0] = run_time(steps)
  /\ current_dt[0] < dt
  /\ \A i \in 1 .. Len(tfile.rows) : tfile.rows[i].kind # "rejected"

-----------------------------------------------------------------------------
(* c.log over several calls of update: logcount is static (line 709) and    *)
(* keeps its value from one call to the next, c.log is opened for appending *)

MaxCalls == 2        \* calls of update in one process

\* the caller calls update again on the grid the last call returned
CallAgain ==
  /\ \A p \in Procs : pc[p] = "returned"
  /\ Len(calls) < MaxCalls - 1
  /\ calls' = Append(calls, [steps |-> steps, logcount |-> logcount[0],
                             rows |-> Len(cfile.rows)])
  /\ \E s \in {1, 3, MaxSteps} : steps' = s
  /\ pc' = [p \in Procs |-> "entry"]
  /\ UNCHANGED <<initGridN, interp, run, lattice, summary, comp,
                 parallelTangentSolver, energy>>
  /\ UNCHANGED <<adaptStep, current_time, current_dt, logcount, totBadTangents,
                 oldGrid, newGrid, myv, interfacialVelocity, cfile, tfile, gsl,
                 task, reg, updCrit1, vary>>

InitCalls ==
  InitFor(1, {1, 3, MaxSteps}, MaxVariedShort, GslMenu(1, {Converged}))

NextCalls == Next \/ CallAgain

SpecCalls == InitCalls /\ [][NextCalls]_vars

\* an accepted step writes a c.log row exactly when logcount equals
\* min(100000, steps) and then restarts logcount at 1, else it adds one to
\* logcount; a rejected step writes no row and leaves logcount alone
RowsFollowLogcount ==
  [][\A p \in Procs :
       /\ AcceptedStep(p) =>
            /\ (p = 0 => (Len(cfile'.rows) = Len(cfile.rows) + 1
                            <=> logcount[p] = Min(LogStepMax, steps)))
            /\ Len(cfile'.rows) \in {Len(cfile.rows), Len(cfile.rows) + 1}
            /\ logcount'[p] = IF logcount[p] = Min(LogStepMax, steps)
                              THEN 1 ELSE logcount[p] + 1
       /\ RejectedStep(p) =>
            /\ cfile' = cfile
            /\ logcount'[p] = logcount[p]]_vars

\* logcount and the rows of c.log when the running call was entered
EntryLogcount == IF calls = <<>> THEN 1 ELSE calls[Len(calls)].logcount
EntryRows == IF calls = <<>> THEN 0 ELSE calls[Len(calls)].rows

\* accepted steps of the running call since its last row, or since its
\* entry when it has written none
SinceRowInCall ==
  IF Len(cfile.rows) > EntryRows THEN logcount[0] - 1
  ELSE logcount[0] - EntryLogcount

\* a row is written within every logstep consecutive accepted steps of a
\* call
RowWithinLogstep == SinceRowInCall < Min(LogStepMax, steps)

\* the same over the calls: logcount - 1 accepted steps have passed since
\* the last row, whichever call wrote it
RowWithinLogstepOverCalls ==
  \A p \in Procs : logcount[p] >= 1 /\ logcount[p] <= Min(LogStepMax, steps)

SameStepsEveryCall == \A i \in 1 .. Len(calls) : calls[i].steps = steps

\* a call in fixed-step mode that returns has written exactly one row, on
\* its last step
OneRowPerFixedCall ==
  (~adaptStep /\ SameStepsEveryCall /\ pc[0] = "returned") =>
    /\ Len(cfile.rows) = Len(calls) + 1
    /\ LastRow(cfile).time = run_time(steps)
    /\ LastRow(cfile).dt = dt

FixedCallsOneRowEach ==
  /\ ~adaptStep
  /\ Len(calls) = 1 /\ calls[1].steps = 3 /\ steps = 3
  /\ pc[0] = "returned"
  /\ Len(cfile.rows) = 2
  /\ logcount[0] = 1

\* an adaptive call of MaxSteps steps has returned after fewer accepted
\* steps, and a later call of three steps runs without ever writing a row
LogcountPastLogstep ==
  /\ adaptStep
  /\ Len(calls) = 1 /\ steps = 3
  /\ pc[0] = "returned"
  /\ logcount[0] >= EntryLogcount + 3
  /\ Len(cfile.rows) = 0

-----------------------------------------------------------------------------
(* t.log, lines 873-875 and 889-890                                         *)

\* the row of t.log for the decision rank 0 is about to take
DecisionRow(kind) ==
  [kind |-> kind, velocity |-> interfacialVelocity[0], dt |-> current_dt[0]]

\* t.log has one more row, the row of this decision
RowAppended(kind) ==
  /\ Len(tfile'.rows) = Len(tfile.rows) + 1
  /\ tfile'.rows[Len(tfile'.rows)] = DecisionRow(kind)
  /\ \A i \in 1 .. Len(tfile.rows) : tfile'.rows[i] = tfile.rows[i]

\* C27: under adaptive stepping every rejected step and every accepted
\* step appends exactly one row to t.log, holding the velocity and the
\* timestep of that step, in the order of the decisions
C27_EveryDecisionLogged ==
  [][adaptStep =>
       /\ RejectedStep(0) => RowAppended("rejected")
       /\ AcceptedStep(0) => RowAppended("accepted")]_vars

\* what update does: a row for every rejected step, and for an accepted
\* step only when the c.log row is due
AcceptedLoggedWhenDue ==
  [][adaptStep =>
       /\ RejectedStep(0) => RowAppended("rejected")
       /\ (AcceptedStep(0) /\ LogDue(logcount[0], steps)) => RowAppended("accepted")
       /\ (AcceptedStep(0) /\ ~LogDue(logcount[0], steps)) => tfile' = tfile]_vars

\* two steps of an adaptive run of three were accepted without a row
AcceptedUnlogged ==
  /\ adaptStep /\ steps = 3
  /\ pc[0] = "head"
  /\ current_time[0] > dt
  /\ tfile.rows = <<>>

-----------------------------------------------------------------------------
(* gibbs on one node, in alloy625.cpp (three secondary phases) and in        *)
(* src/alloy625.cpp (cuda625: two secondary phases, the fictitious          *)
(* compositions of gamma stored in fields NC + NP and NC + NP + 1).          *)
(*                                                                          *)
(* The penalty is carried times PhiDen^4, its derivative with respect to a  *)
(* phase field times PhiDen^3, in the unit of alpha.                        *)

NPTwoPhase == 2      \* secondary phases of the cuda625 model

\* the phase fields of a node of the unit
PhasesOf(unit) == IF unit = "alloy625" THEN NC .. (NC + NP - 1)
                  ELSE NC .. (NC + NPTwoPhase - 1)

\* alloy625.cpp line 1154: alpha * (vsq * vsq - diagonal), vsq * vsq being
\* the dot product of the squares with themselves
trijunctionDot(phi) ==
  LET vsq == [i \in DOMAIN phi |-> phi[i] * phi[i]]
      diagonal == SumOver(vsq, DOMAIN phi)
  IN alpha * (SumOver([i \in DOMAIN phi |-> vsq[i] * vsq[i]], DOMAIN phi)
                - PhiDen * PhiDen * diagonal)

\* src/alloy625.cpp lines 355-357: 2 * alpha * vsq[i] * vsq[j] over i < j
trijunctionPairs(phi) ==
  LET vsq == [i \in DOMAIN phi |-> phi[i] * phi[i]]
      pairs == {ij \in (DOMAIN phi) \X (DOMAIN phi) : ij[1] < ij[2]}
  IN SumOver([ij \in pairs |-> 2 * alpha * vsq[ij[1]] * vsq[ij[2]]], pairs)

trijunction(unit, phi) ==
  IF unit = "alloy625" THEN trijunctionDot(phi) ELSE trijunctionPairs(phi)

\* update lines 787-789: 4 * alpha * phi_i * (sum over j # i of phi_j^2)
trijunctionForce(phi, i) ==
  4 * alpha * phi[i]
    * SumOver([j \in DOMAIN phi |-> phi[j] * phi[j]], (DOMAIN phi) \ {i})

\* a fraction n / PhiDen^5 in hundredths
Hundredths(n) == Quot(100 * n, pow(PhiDen, 5))

\* parabola625.c lines 245-251, the denominator of inv_fict_det times 1e4
fict_det(fd, fg, fl) ==
  Quot(636 * fd * fd + 7747 * fd * fg + 10000 * fd * fl + 1141 * fg * fg
         + 2994 * fg * fl + 764 * fl * fl, 10000)

\* parabola625.c lines 254-260, fractions in hundredths, compositions in
\* the unit of One
fict_gam_Cr(XCR, XNB, fd, fg, fl) ==
  LET lin == Quot(9427 * fd + 1328 * fg + 2748 * fl, 100) * XCR
               + Quot(4814 * fd + 10000 * fl, 100) * XNB
      sq == 699 * fd * fd + 322 * fd * fg + 287 * fd * fl + 285 * fg * fl
              + 2441 * fl * fl
  IN Quot(8590 * Quot(lin - Quot(sq, 10000) * One, fict_det(fd, fg, fl)), 10000)

\* parabola625.c lines 263-269
fict_gam_Nb(XCR, XNB, fd, fg, fl) ==
  LET lin == Quot(7557 * fd - 637 * fl, 100) * XCR
               + Quot(3074 * fd - 10000 * fg - 5553 * fl, 100) * XNB
      sq == 1851 * fg * fl + 1165 * fl * fl - 819 * fd * fd - 3295 * fd * fg
              - 3867 * fd * fl
  IN Quot((0 - 1141) * Quot(lin + Quot(sq, 10000) * One, fict_det(fd, fg, fl)),
          10000)

\* src/alloy625.cpp lines 311-324
update_compositions(GRIDN) ==
  LET fdel == Hundredths(h(GRIDN[2], PhiDen))
      flav == Hundredths(h(GRIDN[3], PhiDen))
      fgam == 100 - fdel - flav
  IN [GRIDN EXCEPT
        ![NC + NPTwoPhase] = fict_gam_Cr(GRIDN[0], GRIDN[1], fdel, fgam, flav),
        ![NC + NPTwoPhase + 1] = fict_gam_Nb(GRIDN[0], GRIDN[1], fdel, fgam, flav)]

\* src/alloy625.cpp lines 335-336: the arguments gibbs hands to g_gam
gibbsGamma(v) == <<v[NC + NPTwoPhase], v[NC + NPTwoPhase]>>

\* the arguments taken from the two fields of the node
gibbsGammaStored(v) == <<v[NC + NPTwoPhase], v[NC + NPTwoPhase + 1]>>

\* nodes of the three-phase model: only the phase fields matter here, and
\* a phase field may be negative
ThreePhaseNodes ==
  {BlankNode(Milli(300), Milli(20), <<phi[1], phi[2], phi[3]>>) :
     phi \in [1 .. 3 -> (0 - PhiDen) .. PhiDen]}

\* nodes of the two-phase model: compositions and two phase fields whose
\* fractions leave room for gamma
TwoPhaseNodes ==
  {[i \in 0 .. 5 |-> IF i = 0 THEN x[1] ELSE IF i = 1 THEN x[2]
                     ELSE IF i = 2 THEN phi[1] ELSE IF i = 3 THEN phi[2] ELSE 0] :
     x \in Compositions,
     phi \in {q \in [1 .. 2 -> 0 .. PhiDen] :
                h(q[1], PhiDen) + h(q[2], PhiDen) <= pow(PhiDen, 5)}}

InitGibbs ==
  /\ IdleBut("energy")
  /\ \/ \E v \in ThreePhaseNodes :
          energy = [pc |-> "solved", unit |-> "alloy625", v |-> v,
                    penalty |-> 0, gamma |-> <<>>]
     \/ \E v \in TwoPhaseNodes :
          energy = [pc |-> "blank", unit |-> "cuda625", v |-> v,
                    penalty |-> 0, gamma |-> <<>>]

\* cuda625 generate, line 238
UpdateCompositions ==
  /\ energy.pc = "blank"
  /\ energy' = [energy EXCEPT !.pc = "solved", !.v = update_compositions(@)]
  /\ KeepBut("energy")

\* gibbs(v) as summarize (alloy625) and summarize_energy (cuda625) call it
Gibbs ==
  /\ energy.pc = "solved"
  /\ energy' =
       [energy EXCEPT
          !.pc = "evaluated",
          !.penalty = trijunction(energy.unit,
                                  [i \in PhasesOf(energy.unit) |-> energy.v[i]]),
          !.gamma = IF energy.unit = "cuda625" THEN gibbsGamma(energy.v) ELSE <<>>]
  /\ KeepBut("energy")

NextGibbs == UpdateCompositions \/ Gibbs

SpecGibbs == InitGibbs /\ [][NextGibbs]_vars

\* the penalty of gibbs meets the description for the phase fields phi:
\* zero with at most one of them nonzero, never negative, and with the
\* term of update as its derivative (a central difference, exact for an
\* energy that is quadratic in each phase field)
PenaltyAsDescribed(unit, phi, penalty) ==
  /\ Cardinality({i \in DOMAIN phi : phi[i] # 0}) <= 1 => penalty = 0
  /\ penalty >= 0
  /\ \A i \in DOMAIN phi :
       trijunction(unit, [phi EXCEPT ![i] = @ + 1])
         - trijunction(unit, [phi EXCEPT ![i] = @ - 1])
         = 2 * trijunctionForce(phi, i)

\* C28: the trijunction penalty gibbs adds is zero when at most one
\* secondary-phase order parameter of the node is nonzero, non-negative
\* otherwise, and the energy whose derivative with respect to phi_i is
\* 4 * alpha * phi_i * (sum over j # i of phi_j^2)
C28_TrijunctionPenalty ==
  energy.pc = "evaluated" =>
    PenaltyAsDescribed(energy.unit,
                       [i \in PhasesOf(energy.unit) |-> energy.v[i]],
                       energy.penalty)

\* the penalty of the two-phase unit does meet the description
TwoPhasePenaltyAsDescribed ==
  (energy.pc = "evaluated" /\ energy.unit = "cuda625") =>
    PenaltyAsDescribed(energy.unit,
                       [i \in PhasesOf(energy.unit) |-> energy.v[i]],
                       energy.penalty)

\* alloy625.cpp on a node with one phase field between 0 and 1: the
\* penalty is alpha * (phi^4 - phi^2), below zero
SinglePhaseNegative ==
  /\ energy.pc = "evaluated" /\ energy.unit = "alloy625"
  /\ energy.v[2] = 1 /\ energy.v[3] = 0 /\ energy.v[4] = 0
  /\ energy.penalty = alpha * (1 - PhiDen * PhiDen)

\* C29: in the two-phase model gibbs evaluates the bulk energy of gamma at
\* the fictitious composition stored in the node, Cr from field NC + NP and
\* Nb from field NC + NP + 1, the two values update_compositions wrote
C29_GammaEnergyAtStoredComposition ==
  (energy.pc = "evaluated" /\ energy.unit = "cuda625") =>
    /\ energy.gamma = gibbsGammaStored(energy.v)
    /\ energy.gamma = gibbsGammaStored(update_compositions(energy.v))

\* what gibbs does: both arguments are the Cr fraction of field NC + NP
GammaEnergyAtCrTwice ==
  (energy.pc = "evaluated" /\ energy.unit = "cuda625") =>
    /\ energy.gamma[1] = energy.v[NC + NPTwoPhase]
    /\ energy.gamma[2] = energy.v[NC + NPTwoPhase]

\* a pure gamma node of the matrix: stored (0.2999, 0.0200), evaluated at
\* (0.2999, 0.2999)
GammaNbMisread ==
  /\ energy.pc = "evaluated" /\ energy.unit = "cuda625"
  /\ energy.v[2] = 0 /\ energy.v[3] = 0
  /\ energy.v[0] = Milli(300)
  /\ energy.gamma[2] > 10 * energy.v[NC + NPTwoPhase + 1]

-----------------------------------------------------------------------------
(* The four heuristic guesses over the physical compositions               *)

GuessGrid == 40      \* system compositions are multiples of 1 / GuessGrid

\* x_Cr >= 0, x_Nb >= 0, x_Cr + x_Nb <= 1: the lattice of the composition
\* triangle and the compositions generate writes
PhysicalCompositions ==
  {<<(a * One) \div GuessGrid, (b * One) \div GuessGrid>> :
     a \in 0 .. GuessGrid, b \in 0 .. GuessGrid} \cup Compositions

\* nodes the guesses are called on: blank fictitious fields in generate
\* (317-320), the fields copied from the old node in update (833-836)
GuessNodes ==
  {[i \in AllFields |->
      IF i < 5 THEN BlankNode(x[1], x[2], phi)[i]
      ELSE IF i = 13 THEN 0
      ELSE IF copied THEN x[((i + 1) % 2) + 1] ELSE 0] :
     x \in {y \in PhysicalCompositions : y[1] + y[2] <= One},
     phi \in PhaseFields, copied \in BOOLEAN}

InitGuess ==
  /\ IdleBut("initGridN")
  /\ \E N \in GuessNodes : initGridN = [pc |-> 0, f |-> N, entry |-> N]

\* lines 317-320, 833-836: the four calls in their order; pc counts the
\* guesses that have acted
CallGuessGamma ==
  /\ initGridN.pc = 0
  /\ initGridN' = [initGridN EXCEPT !.pc = 1, !.f = guessGamma(@)]
  /\ KeepBut("initGridN")

CallGuessDelta ==
  /\ initGridN.pc = 1
  /\ initGridN' = [initGridN EXCEPT !.pc = 2, !.f = guessDelta(@)]
  /\ KeepBut("initGridN")

CallGuessMu ==
  /\ initGridN.pc = 2
  /\ initGridN' = [initGridN EXCEPT !.pc = 3, !.f = guessMu(@)]
  /\ KeepBut("initGridN")

CallGuessLaves ==
  /\ initGridN.pc = 3
  /\ initGridN' = [initGridN EXCEPT !.pc = 4, !.f = guessLaves(@)]
  /\ KeepBut("initGridN")

NextGuess == CallGuessGamma \/ CallGuessDelta \/ CallGuessMu \/ CallGuessLaves

SpecGuess == InitGuess /\ [][NextGuess]_vars

\* phases whose guess has acted: 0 gamma, 1 delta, 2 mu, 3 Laves
Guessed == 0 .. (initGridN.pc - 1)

\* the Cr and Nb fractions of phase j are non-negative and sum to at most 1
PhaseFractionsPhysical(f, j) ==
  /\ f[5 + 2 * j] >= 0
  /\ f[6 + 2 * j] >= 0
  /\ f[5 + 2 * j] + f[6 + 2 * j] <= One

\* the fields written so far are those of the guesses on a node that has
\* fields 0 and 1 only, and no field outside 5-12 has changed
GuessesLocal ==
  LET bare == guessNode([i \in AllFields |->
                           IF i < 2 THEN initGridN.f[i] ELSE 0])
  IN /\ \A j \in Guessed : /\ initGridN.f[5 + 2 * j] = bare[5 + 2 * j]
                           /\ initGridN.f[6 + 2 * j] = bare[6 + 2 * j]
     /\ \A i \in AllFields \ (5 .. 12) : initGridN.f[i] = initGridN.entry[i]
     /\ \A i \in 5 .. 12 :
          i >= 5 + 2 * initGridN.pc => initGridN.f[i] = initGridN.entry[i]

MuOverfull ==
  /\ initGridN.pc = 3
  /\ initGridN.f[0] = Milli(500) /\ initGridN.f[1] = Milli(500)
  /\ initGridN.f[9] + initGridN.f[10] > One

\* x_Cr = 1: guessGamma writes 0.9852 and 0.015, guessLaves 0.7692 and 0.3
GammaOverfull ==
  /\ initGridN.pc = 4
  /\ initGridN.f[0] = One
  /\ initGridN.f[5] + initGridN.f[6] > One
  /\ initGridN.f[11] + initGridN.f[12] > One

\* guessDelta keeps its sum below 1 on every physical node
DeltaPhysical ==
  initGridN.pc >= 2 => PhaseFractionsPhysical(initGridN.f, 1)

====
